---- MODULE Spec2Model ----
(***************************************************************************)
(* The configurable two-pass assembler of src/assembler.py as a state      *)
(* machine: preprocess, first_pass, second_pass, write_output, driven by   *)
(* main.  A string is a sequence of one-character strings, so that the     *)
(* text operations of the code (split, strip, startswith, replace, int,    *)
(* format, zfill, hex) are computed, not assumed.                          *)
(***************************************************************************)
EXTENDS Integers, Sequences, FiniteSets, TLC

(***************************************************************************)
(* Bounds of the model.                                                    *)
(***************************************************************************)
\* longest source file of the assembler-centred specification
MaxLines == 3
\* longest source file of the preprocessor-centred specification
MaxPreLines == 5

(***************************************************************************)
(* Python's string operations, on sequences of characters.                 *)
(***************************************************************************)
WS == {" ", "\t", "\n", "\r"}

RECURSIVE lstrip(_)
lstrip(s) == IF s # <<>> /\ Head(s) \in WS THEN lstrip(Tail(s)) ELSE s

RECURSIVE rstrip(_)
rstrip(s) ==
    IF s # <<>> /\ s[Len(s)] \in WS THEN rstrip(SubSeq(s, 1, Len(s) - 1)) ELSE s

\* str.strip()
strip(s) == rstrip(lstrip(s))

RECURSIVE split_from(_, _, _)
split_from(s, cur, acc) ==
    IF s = <<>>
    THEN (IF cur = <<>> THEN acc ELSE Append(acc, cur))
    ELSE IF Head(s) \in WS
         THEN split_from(Tail(s), <<>>, IF cur = <<>> THEN acc ELSE Append(acc, cur))
         ELSE split_from(Tail(s), Append(cur, Head(s)), acc)

\* str.split(): the whitespace-separated tokens
split(s) == split_from(s, <<>>, <<>>)

RECURSIVE before_semicolon(_)
\* line.split(';')[0]
before_semicolon(s) ==
    IF s = <<>> \/ Head(s) = ";" THEN <<>>
    ELSE <<Head(s)>> \o before_semicolon(Tail(s))

\* str.startswith(p)
startswith(s, p) == Len(s) >= Len(p) /\ SubSeq(s, 1, Len(p)) = p

\* str.endswith(p)
endswith(s, p) == Len(s) >= Len(p) /\ SubSeq(s, Len(s) - Len(p) + 1, Len(s)) = p

RECURSIVE replace(_, _, _)
\* str.replace(k, v): every non-overlapping occurrence, left to right (the keys
\* of the code are tokens of split(), never empty)
replace(s, k, v) ==
    IF k = <<>> \/ Len(s) < Len(k) THEN s
    ELSE IF SubSeq(s, 1, Len(k)) = k
         THEN v \o replace(SubSeq(s, Len(k) + 1, Len(s)), k, v)
         ELSE <<Head(s)>> \o replace(Tail(s), k, v)

RECURSIVE lstrip_char(_, _)
lstrip_char(s, c) == IF s # <<>> /\ Head(s) = c THEN lstrip_char(Tail(s), c) ELSE s

RECURSIVE rstrip_char(_, _)
rstrip_char(s, c) ==
    IF s # <<>> /\ s[Len(s)] = c THEN rstrip_char(SubSeq(s, 1, Len(s) - 1), c) ELSE s

\* str.strip('"')
strip_char(s, c) == rstrip_char(lstrip_char(s, c), c)

LowerToUpper ==
    "a" :> "A" @@ "b" :> "B" @@ "c" :> "C" @@ "d" :> "D" @@ "e" :> "E" @@ "f" :> "F"
    @@ "g" :> "G" @@ "h" :> "H" @@ "i" :> "I" @@ "j" :> "J" @@ "k" :> "K" @@ "l" :> "L"
    @@ "m" :> "M" @@ "n" :> "N" @@ "o" :> "O" @@ "p" :> "P" @@ "q" :> "Q" @@ "r" :> "R"
    @@ "s" :> "S" @@ "t" :> "T" @@ "u" :> "U" @@ "v" :> "V" @@ "w" :> "W" @@ "x" :> "X"
    @@ "y" :> "Y" @@ "z" :> "Z"

\* str.upper(), on the letters the model's inputs are written in
upper(s) == [i \in 1..Len(s) |-> IF s[i] \in DOMAIN LowerToUpper THEN LowerToUpper[s[i]] ELSE s[i]]

DecDigits == <<"0", "1", "2", "3", "4", "5", "6", "7", "8", "9">>
HexDigits == DecDigits \o <<"a", "b", "c", "d", "e", "f">>

\* the value of digit c in the given base, or -1 when c is no digit of it
digit_value(c, base) ==
    LET lc == IF c \in {"A", "B", "C", "D", "E", "F"}
              THEN CHOOSE l \in {"a", "b", "c", "d", "e", "f"} : LowerToUpper[l] = c
              ELSE c
        hit == {i \in 1..base : HexDigits[i] = lc}
    IN IF hit = {} THEN -1 ELSE (CHOOSE i \in hit : TRUE) - 1

RECURSIVE digits_value(_, _, _)
digits_value(s, base, acc) ==
    IF s = <<>> THEN acc
    ELSE digits_value(Tail(s), base, acc * base + digit_value(Head(s), base))

\* int(s, base) for base 10 or 16: an optional sign, for base 16 an optional
\* 0x prefix, then one or more digits; anything else raises ValueError (ok = FALSE)
int(s, base) ==
    LET signed == s # <<>> /\ Head(s) \in {"+", "-"}
        body == IF signed THEN Tail(s) ELSE s
        prefixed == base = 16 /\ Len(body) >= 2 /\ body[1] = "0" /\ body[2] \in {"x", "X"}
        digs == IF prefixed THEN SubSeq(body, 3, Len(body)) ELSE body
        ok == digs # <<>> /\ \A i \in 1..Len(digs) : digit_value(digs[i], base) >= 0
        mag == IF ok THEN digits_value(digs, base, 0) ELSE 0
    IN [ok |-> ok, val |-> IF signed /\ Head(s) = "-" THEN 0 - mag ELSE mag]

\* a slip in the test of a literal: a sign before the digits passes too
isdigit_signed(s) ==
    LET body == IF s # <<>> /\ Head(s) \in {"+", "-"} THEN Tail(s) ELSE s
    IN body # <<>> /\ \A i \in 1..Len(body) : digit_value(body[i], 10) >= 0

\* str.isdigit()
isdigit(s) == s # <<>> /\ \A i \in 1..Len(s) : digit_value(s[i], 10) >= 0

\* ord(c), on the characters the model's inputs are written in
ord(c) ==
    CASE c = "A" -> 65 [] c = "L" -> 76 [] c = "M" -> 77 [] c = "a" -> 97
      [] c = "0" -> 48 [] c = "1" -> 49 [] c = "5" -> 53 [] OTHER -> 63

RECURSIVE to_digits(_, _)
\* the digits of n >= 0 in the given base, most significant first ("0" for 0)
to_digits(n, base) ==
    IF n < base THEN <<HexDigits[n + 1]>>
    ELSE Append(to_digits(n \div base, base), HexDigits[(n % base) + 1])

RECURSIVE zfill(_, _)
\* str.zfill(w) of a string that starts with no sign: zeros on the left up to
\* width w, and nothing cut off a longer string
zfill(s, w) == IF Len(s) >= w THEN s ELSE zfill(<<"0">> \o s, w)

\* format(n, '0{w}b'): binary, zero-padded to at least w characters, the sign
\* of a negative number counted in the width; never truncated
format_b(n, w) ==
    IF n >= 0 THEN zfill(to_digits(n, 2), w)
    ELSE <<"-">> \o zfill(to_digits(0 - n, 2), w - 1)

(***************************************************************************)
(* The ISA descriptor load_json_config reads: the registers and the        *)
(* instructions, every instruction with opcode width + field sizes = 32.   *)
(***************************************************************************)
M_NOP == <<"N", "O", "P">>
M_JMP == <<"J", "M", "P">>
M_LDI == <<"L", "D", "I">>
M_LD == <<"L", "D">>
M_OUT == <<"O", "U", "T">>
M_INT == <<"I", "N", "T">>
M_SYS == <<"S", "Y", "S">>

\* self.registers: register name -> bit-string
registers ==
    [r \in {<<"r", "1">>, <<"r", "2">>} |->
        IF r = <<"r", "1">> THEN format_b(1, 8) ELSE format_b(2, 8)]

\* one instruction descriptor of the JSON file
Instr(opcode, types, sizes) ==
    [bitwise_opcode |-> opcode, operand_count |-> Len(types),
     operand_types |-> types, field_sizes |-> sizes]

NoSizes == [f \in {} |-> 0]

\* self.instructions: mnemonic -> descriptor
instructions ==
    [m \in {M_NOP, M_JMP, M_LDI, M_LD, M_OUT, M_INT, M_SYS} |->
        CASE m = M_NOP -> Instr(format_b(15, 32), <<>>, NoSizes)
          [] m = M_JMP -> Instr(format_b(1, 16), <<"address">>, [f \in {"r1"} |-> 16])
          [] m = M_LDI -> Instr(format_b(2, 16), <<"register", "immediate">>,
                                [f \in {"r1", "r2"} |-> 8])
          [] m = M_LD  -> Instr(format_b(3, 8), <<"register", "memory">>,
                                [f \in {"r1", "r2"} |-> IF f = "r1" THEN 8 ELSE 16])
          [] m = M_OUT -> Instr(format_b(4, 24), <<"port">>, [f \in {"r1"} |-> 8])
          [] m = M_INT -> Instr(format_b(5, 24), <<"interrupt">>, [f \in {"r1"} |-> 8])
          [] m = M_SYS -> Instr(format_b(6, 24), <<"flag">>, [f \in {"r1"} |-> 8])]

\* sum(instr_info['field_sizes'].values())
RECURSIVE sum_sizes(_, _)
sum_sizes(sizes, names) ==
    IF names = {} THEN 0
    ELSE LET n == CHOOSE x \in names : TRUE
         IN sizes[n] + sum_sizes(sizes, names \ {n})

\* the descriptor is well formed: opcode width + sum of the field sizes = 32
WellFormedISA ==
    \A m \in DOMAIN instructions :
        Len(instructions[m].bitwise_opcode)
            + sum_sizes(instructions[m].field_sizes, DOMAIN instructions[m].field_sizes) = 32

\* self.data_type_directives
data_type_directives == {<<"d", "b">>, <<"d", "w">>, <<"d", "d">>}

(***************************************************************************)
(* The files an #include can name, as f.readlines() returns them: raw      *)
(* lines, indentation, comment and line end included.                      *)
(***************************************************************************)
F_inc == <<"i", "n", "c">>

FileSystem ==
    [f \in {F_inc} |->
        << <<" ", ".", "o", "r", "g", " ", "2", "\n">>,
           <<"n", "o", "p", " ", ";", "c", "\n">> >>]

(***************************************************************************)
(* Assembler.preprocess                                                    *)
(***************************************************************************)
K_include == <<"#", "i", "n", "c", "l", "u", "d", "e">>
K_ifdef == <<".", "i", "f", "d", "e", "f">>
K_ifndef == <<".", "i", "f", "n", "d", "e", "f">>
K_else == <<".", "e", "l", "s", "e">>
K_endif == <<".", "e", "n", "d", "i", "f">>
K_define == <<".", "d", "e", "f", "i", "n", "e">>
K_org == <<".", "o", "r", "g">>

\* macro in self.defines (the dict is kept as the sequence of its items, in
\* insertion order)
in_defines(defs, key) == \E i \in 1..Len(defs) : defs[i][1] = key

\* self.defines[key] = value: a new key goes last, a known key keeps its place
set_define(defs, key, value) ==
    IF in_defines(defs, key)
    THEN [i \in 1..Len(defs) |-> IF defs[i][1] = key THEN <<key, value>> ELSE defs[i]]
    ELSE Append(defs, <<key, value>>)

RECURSIVE substitute(_, _)
\* for key, value in self.defines.items(): line = line.replace(key, value)
substitute(line, defs) ==
    IF defs = <<>> THEN line
    ELSE substitute(replace(line, defs[1][1], defs[1][2]), Tail(defs))

\* a slip in the fatal path: the message is printed and preprocess goes on
pre_exit_returns(st, msg) == [st EXCEPT !.errors = Append(@, msg)]

\* sys.exit(1) after printing msg
pre_exit(st, msg) == [st EXCEPT !.status = "exit", !.errors = Append(@, msg)]

\* an exception nothing catches: the traceback, and the interpreter exits with 1
pre_raise(st, exc) == [st EXCEPT !.status = "raise", !.errors = Append(@, exc)]

\* the body of the loop of preprocess, for one raw line
preprocess_line(st, raw) ==
    LET line == strip(before_semicolon(raw))
        toks == split(line)
    IN IF line = <<>> THEN st
       ELSE IF startswith(line, K_include) THEN
           IF Len(toks) < 2 THEN pre_raise(st, "IndexError")
           ELSE LET file_to_include == strip_char(toks[2], "\"")
                IN IF file_to_include \notin DOMAIN FileSystem
                   THEN pre_exit(st, "Included file not found")
                   ELSE [st EXCEPT !.include_stack = @ \o FileSystem[file_to_include]]
       ELSE IF startswith(line, K_ifdef) THEN
           IF Len(toks) # 2 THEN pre_raise(st, "ValueError")
           ELSE [st EXCEPT !.condition_stack = Append(@, in_defines(st.defines, toks[2])),
                           !.processing = @ /\ in_defines(st.defines, toks[2])]
       ELSE IF startswith(line, K_ifndef) THEN
           IF Len(toks) # 2 THEN pre_raise(st, "ValueError")
           ELSE [st EXCEPT !.condition_stack = Append(@, ~in_defines(st.defines, toks[2])),
                           !.processing = @ /\ ~in_defines(st.defines, toks[2])]
       ELSE IF startswith(line, K_else) THEN
           IF st.condition_stack = <<>>
           THEN pre_exit(st, "'.else' without matching '.ifdef' or '.ifndef'")
           ELSE [st EXCEPT !.processing = ~st.condition_stack[Len(st.condition_stack)]]
       ELSE IF startswith(line, K_endif) THEN
           IF st.condition_stack = <<>>
           THEN pre_exit(st, "'.endif' without matching '.ifdef' or '.ifndef'")
           ELSE [st EXCEPT !.condition_stack = SubSeq(@, 1, Len(@) - 1),
                           !.processing = TRUE]
       ELSE IF ~st.processing THEN st
       ELSE IF startswith(line, K_define) THEN
           IF Len(toks) # 3 THEN pre_raise(st, "ValueError")
           ELSE [st EXCEPT !.defines = set_define(@, toks[2], toks[3])]
       ELSE [st EXCEPT !.preprocessed_lines = Append(@, substitute(line, st.defines))]

\* the locals of preprocess as it starts, with the defines table of the instance
preprocess_start(defs) ==
    [preprocessed_lines |-> <<>>, include_stack |-> <<>>, processing |-> TRUE,
     condition_stack |-> <<>>, defines |-> defs, errors |-> <<>>, status |-> "run"]

\* the end of preprocess: the included lines go first
preprocess_return(st) ==
    IF st.include_stack # <<>> THEN st.include_stack \o st.preprocessed_lines
    ELSE st.preprocessed_lines

RECURSIVE preprocess_loop(_, _)
preprocess_loop(st, ls) ==
    IF ls = <<>> \/ st.status # "run" THEN st
    ELSE preprocess_loop(preprocess_line(st, Head(ls)), Tail(ls))

\* preprocess(lines) on an instance whose defines table is defs: the status,
\* the lines returned (when it returns) and the defines table it leaves
preprocess(ls, defs) ==
    LET st == preprocess_loop(preprocess_start(defs), ls)
    IN [status |-> st.status,
        lines |-> IF st.status = "run" THEN preprocess_return(st) ELSE <<>>,
        defines |-> st.defines]

(***************************************************************************)
(* Assembler.parse_line_first_pass                                         *)
(***************************************************************************)
\* a value of self.labels: the address of a code label, or the
\* (address, value) pair of a data directive
CodeLabel(addr) == [kind |-> "code", addr |-> addr, value |-> <<>>]
DataLabel(addr, value) == [kind |-> "data", addr |-> addr, value |-> value]

\* self.labels[name] = entry
set_label(labs, name, entry) ==
    [k \in (DOMAIN labs) \cup {name} |-> IF k = name THEN entry ELSE labs[k]]

\* a slip in the label's name: the colon is kept (label = parts[0])
label_name_with_colon(tok) == tok

\* label = parts[0][:-1]
label_name(tok) == SubSeq(tok, 1, Len(tok) - 1)

\* an exception nothing catches, in either pass
pass_raise(st, exc) == [st EXCEPT !.status = "raise", !.errors = Append(@, exc)]

\* the first pass over one line of the preprocessed sequence
parse_line_first_pass(st, line) ==
    LET parts == split(strip(line))
    IN IF parts = <<>> THEN st
       ELSE IF endswith(parts[1], <<":">>) THEN
           [st EXCEPT !.labels = set_label(@, label_name(parts[1]),
                                           CodeLabel(st.current_address))]
       ELSE IF Len(parts) > 1 /\ (parts[1] \in data_type_directives \/ parts[1] = K_org) THEN
           IF startswith(parts[1], K_org) THEN
               IF ~int(parts[2], 16).ok THEN pass_raise(st, "ValueError")
               ELSE [st EXCEPT !.current_address = int(parts[2], 16).val * 16]
           ELSE
               [st EXCEPT !.labels = set_label(@, parts[1],
                                               DataLabel(st.current_address, parts[2])),
                          !.static_segment = Append(@, <<parts[1], parts[2],
                                                         st.current_address>>),
                          !.current_address = @ + 4]
       ELSE IF upper(parts[1]) \in DOMAIN instructions THEN
           LET instr_info == instructions[upper(parts[1])]
           IN [st EXCEPT !.current_address =
                   @ + (sum_sizes(instr_info.field_sizes, DOMAIN instr_info.field_sizes) \div 8)]
       ELSE st

(***************************************************************************)
(* Assembler.parse_line_second_pass                                        *)
(***************************************************************************)
\* field_name = f"r{i+1}", for the i-th operand counted from 1
field_name(i) == <<"r1", "r2", "r3", "r4">>[i]

\* instr_info['field_sizes'].get(field_name, default)
field_size(instr_info, i, default) ==
    IF field_name(i) \in DOMAIN instr_info.field_sizes
    THEN instr_info.field_sizes[field_name(i)] ELSE default

Bits(b) == [kind |-> "ok", bits |-> b, msg |-> ""]
EncError(m) == [kind |-> "error", bits |-> <<>>, msg |-> m]
EncRaise(e) == [kind |-> "raise", bits |-> <<>>, msg |-> e]

\* int(operand, 16) if it starts with 0x, else int(operand), formatted
number_bits(operand, size) ==
    LET v == IF startswith(operand, <<"0", "x">>) THEN int(operand, 16)
             ELSE int(operand, 10)
    IN IF v.ok THEN Bits(format_b(v.val, size)) ELSE EncRaise("ValueError")

\* format(self.labels[operand], f'0{size}b'): a data label holds a tuple, which
\* format rejects with TypeError
label_bits(labs, operand, size) ==
    IF labs[operand].kind = "code" THEN Bits(format_b(labs[operand].addr, size))
    ELSE EncRaise("TypeError")

\* one turn of the loop over the operands
encode_operand(instr_info, i, raw_operand, labs) ==
    LET operand == replace(raw_operand, <<",">>, <<>>)
        operand_type == instr_info.operand_types[i]
    IN CASE operand_type = "register" ->
              LET reg == replace(IF operand = <<>> THEN <<>> ELSE Tail(operand),
                                 <<",">>, <<>>)
              IN IF reg \in DOMAIN registers THEN Bits(registers[reg])
                 ELSE EncError("Unknown register")
         [] operand_type = "immediate" ->
              IF Len(operand) = 3 /\ operand[1] = "'" /\ operand[3] = "'"
              THEN Bits(format_b(ord(operand[2]), field_size(instr_info, i, 8)))
              ELSE number_bits(operand, field_size(instr_info, i, 8))
         [] operand_type = "memory" ->
              IF operand \in DOMAIN labs
              THEN label_bits(labs, operand, field_size(instr_info, i, 16))
              ELSE IF isdigit(operand)
                   THEN Bits(format_b(int(operand, 10).val, field_size(instr_info, i, 16)))
                   ELSE EncError("Undefined label")
         [] operand_type = "address" ->
              IF operand \in DOMAIN labs
              THEN label_bits(labs, operand, field_size(instr_info, i, 16))
              ELSE EncError("Undefined label")
         [] operand_type = "port" -> number_bits(operand, field_size(instr_info, i, 8))
         [] operand_type = "interrupt" -> number_bits(operand, field_size(instr_info, i, 8))
         [] OTHER -> EncError("Unsupported operand type")

RECURSIVE encode_operands(_, _, _, _, _)
\* the loop over the operands: ''.join(operand_bits), unless a turn returns or raises
encode_operands(instr_info, operands, i, labs, bits) ==
    IF i > Len(operands) THEN Bits(bits)
    ELSE LET r == encode_operand(instr_info, i, operands[i], labs)
         IN IF r.kind # "ok" THEN r
            ELSE encode_operands(instr_info, operands, i + 1, labs, bits \o r.bits)

\* the (bitwise_instr, bitwise_addr) pair appended to text_segment
text_entry(instr_info, bits, addr) ==
    <<zfill(instr_info.bitwise_opcode \o bits, 32), format_b(addr, 32)>>

\* a slip in an error path: the address is advanced as for an encoded word
encoding_error_advances(st, msg) ==
    [st EXCEPT !.errors = Append(@, msg), !.current_address = @ + 4]

\* print(f"Error: ..."), return: the line is given up
encoding_error(st, msg) == [st EXCEPT !.errors = Append(@, msg)]

\* the second pass over one line of the preprocessed sequence
parse_line_second_pass(st, line) ==
    LET parts == split(strip(line))
    IN IF parts = <<>> \/ endswith(parts[1], <<":">>) THEN st
       ELSE IF startswith(line, K_org) THEN
           IF Len(split(line)) < 2 THEN pass_raise(st, "IndexError")
           ELSE IF ~int(split(line)[2], 16).ok THEN pass_raise(st, "ValueError")
           ELSE [st EXCEPT !.current_address = int(split(line)[2], 16).val * 16]
       ELSE IF upper(parts[1]) \in DOMAIN instructions THEN
           LET instr_info == instructions[upper(parts[1])]
               operands == Tail(parts)
           IN IF Len(operands) # instr_info.operand_count
              THEN encoding_error(st, "Incorrect number of operands")
              ELSE LET r == encode_operands(instr_info, operands, 1, st.labels, <<>>)
                   IN CASE r.kind = "error" -> encoding_error(st, r.msg)
                        [] r.kind = "raise" -> pass_raise(st, r.msg)
                        [] OTHER ->
                            [st EXCEPT !.text_segment =
                                           Append(@, text_entry(instr_info, r.bits,
                                                                st.current_address)),
                                       !.current_address = @ + 4]
       ELSE st

(***************************************************************************)
(* Assembler.write_output                                                  *)
(***************************************************************************)
\* hex(n)[2:]: the hex digits of n >= 0; of a negative n, what is left of
\* '-0x...' after its first two characters
hex_tail(n) ==
    IF n >= 0 THEN to_digits(n, 16) ELSE <<"x">> \o to_digits(0 - n, 16)

\* f"{hex_address}: {hex_value}": one line of the output file
output_line(hex_address, hex_value) == hex_address \o <<":", " ">> \o hex_value

RECURSIVE write_text(_, _)
\* the loop over text_segment: w is [out, current_address, status]
write_text(w, items) ==
    IF items = <<>> \/ w.status # "run" THEN w
    ELSE LET item == Head(items)
             instr == int(item[1], 2)
             addr == int(item[2], 2)
         IN IF ~instr.ok \/ ~addr.ok THEN [w EXCEPT !.status = "raise"]
            ELSE write_text([w EXCEPT !.out = Append(@,
                                 output_line(zfill(hex_tail(addr.val), 8),
                                             zfill(hex_tail(instr.val), 8))),
                                      !.current_address = @ + 4],
                            Tail(items))

RECURSIVE write_static(_, _)
\* the loop over static_segment, of (label, value, address) triples
write_static(w, items) ==
    IF items = <<>> \/ w.status # "run" THEN w
    ELSE LET item == Head(items)
             value == int(item[2], 16)
             hex_value == zfill(hex_tail(value.val), 8)
         IN IF ~value.ok THEN [w EXCEPT !.status = "raise"]
            ELSE write_static([w EXCEPT !.out = Append(@,
                                   output_line(zfill(hex_tail(item[3]), 8), hex_value)),
                                        !.current_address = @ + (Len(hex_value) \div 2)],
                              Tail(items))

\* write_output: the lines written to the output file, the address cursor it
\* leaves, and whether it returned
write_output(text, static) ==
    write_static(write_text([out |-> <<>>, current_address |-> 0, status |-> "run"],
                            text), static)

(***************************************************************************)
(* The source files the runs are started on.                               *)
(***************************************************************************)
NL == <<"\n">>
SP == <<" ">>
S_label_L == <<"L", ":">> \o NL
S_jmp_L == M_JMP \o SP \o <<"L">> \o NL
S_jmp_M == M_JMP \o SP \o <<"M">> \o NL
S_jmp == M_JMP \o NL
S_org_1 == K_org \o SP \o <<"1">> \o NL
S_org_1000 == K_org \o SP \o <<"1", "0", "0", "0">> \o NL
S_ldi_5 == M_LDI \o SP \o <<"%", "r", "1", ",", " ", "5">> \o NL
S_ldi_256 == M_LDI \o SP \o <<"%", "r", "1", ",", " ", "2", "5", "6">> \o NL
S_ldi_r9 == M_LDI \o SP \o <<"%", "r", "9", ",", " ", "5">> \o NL
S_foo == <<"F", "O", "O">> \o NL
S_nop == <<"n", "o", "p">> \o NL
S_db_5 == <<"d", "b", " ", "5">> \o NL
S_db_neg == <<"d", "b", " ", "-", "1">> \o NL
S_ld_L == M_LD \o SP \o <<"%", "r", "2", ",", " ", "L">> \o NL
S_include == K_include \o SP \o <<"\"">> \o F_inc \o <<"\"">> \o NL
S_define_D == K_define \o SP \o <<"D", " ", "1">> \o NL
S_ifdef_D == K_ifdef \o SP \o <<"D">> \o NL
S_ifndef_D == K_ifndef \o SP \o <<"D">> \o NL
S_else == K_else \o NL
S_endif == K_endif \o NL
S_out_D == M_OUT \o SP \o <<"D", " ", ";", "c">> \o NL

\* the lines of the assembler-centred runs
AsmLines ==
    {S_label_L, S_jmp_L, S_jmp_M, S_jmp, S_org_1, S_org_1000, S_ldi_5, S_ldi_256,
     S_ldi_r9, S_ld_L, S_foo, S_nop, S_db_5, S_db_neg, S_include}

\* the lines of the preprocessor-centred runs
PreLines ==
    {S_define_D, S_ifdef_D, S_ifndef_D, S_else, S_endif, S_out_D, S_include}

SeqsUpTo(S, n) == UNION {[1..k -> S] : k \in 0..n}

(***************************************************************************)
(* The run of main: Assembler(...), assemble(input_file), write_output.    *)
(***************************************************************************)
VARIABLES
    lines,               \* file.readlines() of the input file
    pc,                  \* where main is
    idx,                 \* the line the current loop is at
    preprocessed_lines, include_stack, processing, condition_stack,
    defines, labels, static_segment, text_segment, current_address,
    errors,              \* the error messages printed so far
    output,              \* the lines written to the output file
    exit_code,           \* the exit status of the process, -1 while it runs
    \* the Pascal front end (src/pascal_compiler)
    code,                \* Lexer.code: the source text
    position,            \* the local position of Lexer.tokenize, counted from 0
    tokens,              \* Lexer.tokens
    current_line, current_column,
    ast,                 \* the local ast of compile_pascal_code
    current_scope,       \* SemanticAnalyzer.current_scope and its enclosing scopes
    visiting,            \* what the calls of visit in progress have left to do
    result               \* what compile_pascal_code returned

\* the state of the Pascal front end
pascal_vars == <<code, position, tokens, current_line, current_column, ast,
                 current_scope, visiting, result>>

vars == <<lines, pc, idx, preprocessed_lines, include_stack, processing,
          condition_stack, defines, labels, static_segment, text_segment,
          current_address, errors, output, exit_code, pascal_vars>>

\* Python's None
None == [py |-> "None"]

\* the Pascal front end, in a run of the assembler: nothing of it exists
NoPascal ==
    /\ code = <<>> /\ position = 0 /\ tokens = <<>>
    /\ current_line = 1 /\ current_column = 1
    /\ ast = None /\ current_scope = <<>> /\ visiting = <<>> /\ result = None

\* the state after Assembler.__init__, as assemble has read the input file
Start(ls) ==
    /\ lines = ls
    /\ pc = "preprocess"
    /\ idx = 1
    /\ preprocessed_lines = <<>>
    /\ include_stack = <<>>
    /\ processing = TRUE
    /\ condition_stack = <<>>
    /\ defines = <<>>
    /\ labels = [k \in {} |-> CodeLabel(0)]
    /\ static_segment = <<>>
    /\ text_segment = <<>>
    /\ current_address = 0
    /\ errors = <<>>
    /\ output = <<>>
    /\ exit_code = -1
    /\ NoPascal

Init == \E ls \in SeqsUpTo(AsmLines, MaxLines) : Start(ls)

InitPre == \E ls \in SeqsUpTo(PreLines, MaxPreLines) : Start(ls)

\* the locals of preprocess and self.defines, as one record
PreState ==
    [preprocessed_lines |-> preprocessed_lines, include_stack |-> include_stack,
     processing |-> processing, condition_stack |-> condition_stack,
     defines |-> defines, errors |-> errors, status |-> "run"]

\* the fields of the instance the passes read and write, as one record
PassState ==
    [labels |-> labels, static_segment |-> static_segment,
     text_segment |-> text_segment, current_address |-> current_address,
     errors |-> errors, status |-> "run"]

\* sys.exit(1), or the interpreter's exit after an uncaught exception
Exit(status) == pc' = "exit" /\ exit_code' = status

\* one turn of the loop of preprocess
PreprocessLine ==
    /\ pc = "preprocess" /\ idx <= Len(lines)
    /\ LET st == preprocess_line(PreState, lines[idx])
       IN /\ preprocessed_lines' = st.preprocessed_lines
          /\ include_stack' = st.include_stack
          /\ processing' = st.processing
          /\ condition_stack' = st.condition_stack
          /\ defines' = st.defines
          /\ errors' = st.errors
          /\ IF st.status = "run"
             THEN idx' = idx + 1 /\ UNCHANGED <<pc, exit_code>>
             ELSE Exit(1) /\ UNCHANGED idx
    /\ UNCHANGED <<lines, labels, static_segment, text_segment, current_address, output>>
    /\ UNCHANGED pascal_vars

\* preprocess returns; first_pass starts: self.current_address = 0
PreprocessReturn ==
    /\ pc = "preprocess" /\ idx > Len(lines)
    /\ preprocessed_lines' = preprocess_return(PreState)
    /\ pc' = "first_pass"
    /\ idx' = 1
    /\ current_address' = 0
    /\ UNCHANGED <<lines, include_stack, processing, condition_stack, defines, labels,
                   static_segment, text_segment, errors, output, exit_code>>
    /\ UNCHANGED pascal_vars

\* one pass's turn on the line at idx
PassLine(st) ==
    /\ labels' = st.labels
    /\ static_segment' = st.static_segment
    /\ text_segment' = st.text_segment
    /\ current_address' = st.current_address
    /\ errors' = st.errors
    /\ IF st.status = "run"
       THEN idx' = idx + 1 /\ UNCHANGED <<pc, exit_code>>
       ELSE Exit(1) /\ UNCHANGED idx
    /\ UNCHANGED <<lines, preprocessed_lines, include_stack, processing,
                   condition_stack, defines, output>>
    /\ UNCHANGED pascal_vars

\* one turn of the loop of first_pass
FirstPassLine ==
    /\ pc = "first_pass" /\ idx <= Len(preprocessed_lines)
    /\ PassLine(parse_line_first_pass(PassState, preprocessed_lines[idx]))

\* first_pass returns; second_pass starts: text_segment = [], current_address = 0
FirstPassReturn ==
    /\ pc = "first_pass" /\ idx > Len(preprocessed_lines)
    /\ pc' = "second_pass"
    /\ idx' = 1
    /\ text_segment' = <<>>
    /\ current_address' = 0
    /\ UNCHANGED <<lines, preprocessed_lines, include_stack, processing, condition_stack,
                   defines, labels, static_segment, errors, output, exit_code>>
    /\ UNCHANGED pascal_vars

\* one turn of the loop of second_pass
SecondPassLine ==
    /\ pc = "second_pass" /\ idx <= Len(preprocessed_lines)
    /\ PassLine(parse_line_second_pass(PassState, preprocessed_lines[idx]))

\* second_pass and assemble return
SecondPassReturn ==
    /\ pc = "second_pass" /\ idx > Len(preprocessed_lines)
    /\ pc' = "write_output"
    /\ UNCHANGED <<lines, idx, preprocessed_lines, include_stack, processing,
                   condition_stack, defines, labels, static_segment, text_segment,
                   current_address, errors, output, exit_code>>
    /\ UNCHANGED pascal_vars

\* write_output, and the end of main: the process ends with status 0, or with
\* 1 after an exception nothing catches
WriteOutput ==
    /\ pc = "write_output"
    /\ LET w == write_output(text_segment, static_segment)
       IN /\ output' = w.out
          /\ current_address' = w.current_address
          /\ IF w.status = "run"
             THEN Exit(0) /\ errors' = errors
             ELSE Exit(1) /\ errors' = Append(errors, "ValueError")
    /\ UNCHANGED <<lines, idx, preprocessed_lines, include_stack, processing,
                   condition_stack, defines, labels, static_segment, text_segment>>
    /\ UNCHANGED pascal_vars

Next ==
    \/ PreprocessLine
    \/ PreprocessReturn
    \/ FirstPassLine
    \/ FirstPassReturn
    \/ SecondPassLine
    \/ SecondPassReturn
    \/ WriteOutput

\* runs on the assembler-centred sources
Spec == Init /\ [][Next]_vars

\* runs on the preprocessor-centred sources
SpecPre == InitPre /\ [][Next]_vars

(***************************************************************************)
(* The passes as functions of the preprocessed sequence, for the           *)
(* properties that compare one pass with the other.                        *)
(***************************************************************************)
RECURSIVE first_pass_loop(_, _)
first_pass_loop(st, ls) ==
    IF ls = <<>> \/ st.status # "run" THEN st
    ELSE first_pass_loop(parse_line_first_pass(st, Head(ls)), Tail(ls))

\* first_pass(ls) on a fresh instance: self.current_address = 0, then the loop
first_pass(ls) ==
    first_pass_loop([labels |-> [k \in {} |-> CodeLabel(0)], static_segment |-> <<>>,
                     text_segment |-> <<>>, current_address |-> 0,
                     errors |-> <<>>, status |-> "run"], ls)

(***************************************************************************)
(* Vocabulary of the properties.                                           *)
(***************************************************************************)
\* the tokens of a line, as both passes split it
Parts(line) == split(strip(line))

\* the line a pass is about to handle
AtLine(p) == pc = p /\ idx <= Len(preprocessed_lines)
CurLine == preprocessed_lines[idx]

\* a label line, defining name
DefinesLabel(line, name) ==
    Parts(line) # <<>> /\ Parts(line)[1] = name \o <<":">>

\* an instruction line with one operand, of kind address, naming a label
IsAddressRef(line) ==
    /\ Len(Parts(line)) = 2
    /\ upper(Parts(line)[1]) \in DOMAIN instructions
    /\ instructions[upper(Parts(line)[1])].operand_types = <<"address">>

RefInfo(line) == instructions[upper(Parts(line)[1])]
RefLabel(line) == replace(Parts(line)[2], <<",">>, <<>>)

\* a `.org X` line with a hex literal X
IsOrgLine(line) ==
    /\ Len(Parts(line)) >= 2
    /\ Parts(line)[1] = K_org
    /\ int(Parts(line)[2], 16).ok

OrgLiteral(line) == int(Parts(line)[2], 16).val

RECURSIVE Pow2(_)
Pow2(n) == IF n = 0 THEN 1 ELSE 2 * Pow2(n - 1)

\* the w-bit binary representation of a: exactly w characters
WBits(a, w) == [i \in 1..w |-> IF (a \div Pow2(w - i)) % 2 = 1 THEN "1" ELSE "0"]

\* the messages of the second pass's encoding errors
EncodingErrors ==
    {"Incorrect number of operands", "Unknown register", "Undefined label",
     "Unsupported operand type"}

(***************************************************************************)
(* C1 (P1, encoding width): with a descriptor whose every instruction has  *)
(* opcode width + field sizes = 32, every text_segment entry holds a       *)
(* bit-string of exactly 32 characters, whatever operand the pass accepted.*)
(* Fails: format() never truncates, so LDI %r1, 256 in an 8-bit field      *)
(* yields a word of 33 characters.                                         *)
(***************************************************************************)
C1_EncodingWidth ==
    WellFormedISA =>
        \A i \in 1..Len(text_segment) : Len(text_segment[i][1]) = 32

(***************************************************************************)
(* C2 (P2, label round trip): when the second pass encodes an instruction  *)
(* whose address operand names a code label recorded at address A, the     *)
(* operand field of the emitted word (what follows the opcode) is the      *)
(* w-bit binary representation of A, w the declared field width.  Fails    *)
(* once A >= 2^w: the field is then wider than w.                          *)
(***************************************************************************)
C2_LabelRoundTrip ==
    [][(/\ AtLine("second_pass")
        /\ IsAddressRef(CurLine)
        /\ RefLabel(CurLine) \in DOMAIN labels
        /\ labels[RefLabel(CurLine)].kind = "code")
       => (/\ Len(text_segment') = Len(text_segment) + 1
           /\ LET word == text_segment'[Len(text_segment')][1]
                  info == RefInfo(CurLine)
              IN SubSeq(word, Len(info.bitwise_opcode) + 1, Len(word))
                     = WBits(labels[RefLabel(CurLine)].addr, field_size(info, 1, 16)))]_vars

(***************************************************************************)
(* C3 (P3, idempotent preprocessing): once preprocess has returned, running*)
(* it again on its own output, with the same defines table, returns that   *)
(* output unchanged.  Fails: included lines are returned raw, so the       *)
(* second run strips their comments and indentation.                       *)
(***************************************************************************)
C3_Idempotent ==
    pc = "first_pass" =>
        LET again == preprocess(preprocessed_lines, defines)
        IN again.status = "run" /\ again.lines = preprocessed_lines

(***************************************************************************)
(* C4: after every .endif the emit flag (processing) equals the conjunction*)
(* of the conditions that remain on condition_stack.  Fails: .endif sets   *)
(* processing = True whatever remains.                                     *)
(***************************************************************************)
Directive(raw) ==
    LET line == strip(before_semicolon(raw))
    IN CASE startswith(line, K_include) -> "include"
         [] startswith(line, K_ifdef) -> "ifdef"
         [] startswith(line, K_ifndef) -> "ifndef"
         [] startswith(line, K_else) -> "else"
         [] startswith(line, K_endif) -> "endif"
         [] OTHER -> "other"

AtSourceLine == pc = "preprocess" /\ idx <= Len(lines)

Conjunction(stack) == \A i \in 1..Len(stack) : stack[i]

\* C4: after every .endif, processing is the conjunction of the remaining stack
C4_EndifRestoresConjunction ==
    [][(AtSourceLine /\ Directive(lines[idx]) = "endif" /\ condition_stack # <<>>)
       => processing' = Conjunction(condition_stack')]_vars

(***************************************************************************)
(* C5: inside a conditional section nested in an enclosing section whose   *)
(* condition is false (and that has met no .else), no line is emitted,     *)
(* neither before nor after the inner section's .else.  Fails: .else sets  *)
(* processing = not condition_stack[-1], forgetting the enclosing sections.*)
(***************************************************************************)
RECURSIVE ElseSeen(_, _)
\* for each section open after the given source lines: has it met its .else
ElseSeen(ls, open) ==
    IF ls = <<>> THEN open
    ELSE LET d == Directive(Head(ls))
         IN ElseSeen(Tail(ls),
                CASE d \in {"ifdef", "ifndef"} -> Append(open, FALSE)
                  [] d = "else" /\ open # <<>> -> [open EXCEPT ![Len(open)] = TRUE]
                  [] d = "endif" /\ open # <<>> -> SubSeq(open, 1, Len(open) - 1)
                  [] OTHER -> open)

EnclosingFalse ==
    LET seen == ElseSeen(SubSeq(lines, 1, idx - 1), <<>>)
    IN \E j \in 1..(Len(condition_stack) - 1) : ~condition_stack[j] /\ ~seen[j]

\* C5: nothing is emitted inside a section nested in a false enclosing section
C5_ElseKeepsEnclosing ==
    [][(AtSourceLine /\ Len(condition_stack) >= 2 /\ EnclosingFalse)
       => preprocessed_lines' = preprocessed_lines]_vars

(***************************************************************************)
(* C6: the second pass reports every line whose first token is neither a   *)
(* label nor .org nor (upper-cased) a mnemonic of the descriptor: it prints*)
(* an error for it.  Fails: such a line is skipped without a message.      *)
(***************************************************************************)
IsUnknownLine(line) ==
    /\ Parts(line) # <<>>
    /\ ~endswith(Parts(line)[1], <<":">>)
    /\ Parts(line)[1] # K_org
    /\ upper(Parts(line)[1]) \notin DOMAIN instructions

\* C6: the second pass prints an error for every line with an unknown mnemonic
C6_UnknownMnemonicReported ==
    [][(AtLine("second_pass") /\ IsUnknownLine(CurLine))
       => Len(errors') > Len(errors)]_vars

(***************************************************************************)
(* C7: a run in which the second pass printed an encoding error ends with  *)
(* exit status 1.  Fails: the error is printed, the pass goes on, and main *)
(* ends with status 0.                                                     *)
(***************************************************************************)
C7_ErrorsFailTheRun ==
    (pc = "exit" /\ \E i \in 1..Len(errors) : errors[i] \in EncodingErrors)
        => exit_code = 1

(***************************************************************************)
(* C8: the first pass has run over every line before the second pass       *)
(* starts, so an instruction whose last operand (address or memory) names  *)
(* a label defined on any line of the preprocessed sequence, later lines   *)
(* included, is encoded with the address the first pass had reached at     *)
(* that label's (last) definition, and no error is printed for it.         *)
(***************************************************************************)
\* an instruction line with the right number of operands, the last one an
\* address or memory operand, the ones before it known registers
IsLabelRef(line) ==
    /\ Len(Parts(line)) >= 2
    /\ upper(Parts(line)[1]) \in DOMAIN instructions
    /\ LET info == instructions[upper(Parts(line)[1])]
           n == Len(Parts(line)) - 1
       IN /\ n = info.operand_count
          /\ info.operand_types[n] \in {"address", "memory"}
          /\ \A i \in 1..(n - 1) :
                /\ info.operand_types[i] = "register"
                /\ Tail(replace(Parts(line)[i + 1], <<",">>, <<>>)) \in DOMAIN registers

\* the label the last operand names
LastOperand(line) == replace(Parts(line)[Len(Parts(line))], <<",">>, <<>>)

\* the lines that define label name
Definitions(name) ==
    {j \in 1..Len(preprocessed_lines) : DefinesLabel(preprocessed_lines[j], name)}

\* the address the first pass has reached when it comes to line j
FirstPassAddressAt(j) == first_pass(SubSeq(preprocessed_lines, 1, j - 1)).current_address

\* the address of the last definition of name
DefinedAddress(name) ==
    FirstPassAddressAt(CHOOSE j \in Definitions(name) : \A k \in Definitions(name) : k <= j)

RECURSIVE RegisterBits(_, _)
\* the bit-strings of the register operands before the last operand
RegisterBits(line, i) ==
    IF i >= Len(Parts(line)) - 1 THEN <<>>
    ELSE registers[Tail(replace(Parts(line)[i + 1], <<",">>, <<>>))]
             \o RegisterBits(line, i + 1)

\* the word expected for a reference to a label at address a
ExpectedWord(line, a) ==
    LET info == RefInfo(line)
        n == info.operand_count
    IN zfill(info.bitwise_opcode \o RegisterBits(line, 1)
                 \o format_b(a, field_size(info, n, 16)), 32)

\* C8: a reference to a label defined on any line, a later one included, is
\* encoded with that label's first-pass address and reported by no error
C8_ForwardReferences ==
    [][(AtLine("second_pass") /\ IsLabelRef(CurLine)
            /\ Definitions(LastOperand(CurLine)) # {})
       => (/\ errors' = errors
           /\ pc' = "second_pass"
           /\ text_segment' =
                 Append(text_segment,
                        <<ExpectedWord(CurLine, DefinedAddress(LastOperand(CurLine))),
                          format_b(current_address, 32)>>))]_vars

\* C8, witness: a reference to a label defined only on a later line, at an
\* address other than 0, has been encoded
C8_Witness ==
    /\ pc = "second_pass" /\ idx >= 2
    /\ LET line == preprocessed_lines[idx - 1]
       IN /\ IsLabelRef(line)
          /\ Definitions(LastOperand(line)) # {}
          /\ \A j \in Definitions(LastOperand(line)) : j >= idx
          /\ DefinedAddress(LastOperand(line)) > 0
          /\ text_segment # <<>>
          /\ text_segment[Len(text_segment)][1]
                 = ExpectedWord(line, DefinedAddress(LastOperand(line)))
          /\ errors = <<>>

(***************************************************************************)
(* C9: for every `.org X` line of the preprocessed sequence the second     *)
(* pass sets current_address to the value the first pass set it to at that *)
(* line.  Fails for an indented `.org` line of an included file: the first *)
(* pass tests its first token, the second pass the raw line's start.       *)
(***************************************************************************)
C9_OrgSameInBothPasses ==
    [][(AtLine("second_pass") /\ IsOrgLine(CurLine))
       => current_address' = FirstPassAddressAt(idx + 1)]_vars

(***************************************************************************)
(* C10: `.org X` loads int(X, 16) into current_address unmodified, in the  *)
(* first pass (the address of a label defined next) and in the second pass *)
(* (the address of the instruction encoded next).  Fails: both passes      *)
(* store int(X, 16) * 16.                                                  *)
(***************************************************************************)
C10_OrgUnscaled ==
    [][((AtLine("first_pass") \/ AtLine("second_pass")) /\ IsOrgLine(CurLine))
       => current_address' = OrgLiteral(CurLine)]_vars

(***************************************************************************)
(* C11: a .else or a .endif met while condition_stack is empty ends the    *)
(* run with exit status 1: preprocess returns nothing, no pass runs.       *)
(***************************************************************************)
UnmatchedDirective ==
    /\ AtSourceLine
    /\ Directive(lines[idx]) \in {"else", "endif"}
    /\ condition_stack = <<>>

\* C11: an unmatched .else or .endif is fatal, and nothing runs after the exit
C11_UnmatchedIsFatal ==
    [][/\ UnmatchedDirective
          => (/\ pc' = "exit"
              /\ exit_code' = 1
              /\ Len(errors') = Len(errors) + 1
              /\ preprocessed_lines' = preprocessed_lines
              /\ labels' = labels
              /\ text_segment' = <<>>)
       /\ pc = "exit" => pc' = "exit"]_vars

\* C11, witness: the run has ended on an unmatched .else or .endif
C11_Witness ==
    /\ pc = "exit" /\ exit_code = 1
    /\ idx <= Len(lines)
    /\ Directive(lines[idx]) \in {"else", "endif"}
    /\ condition_stack = <<>>
    /\ errors # <<>>

(***************************************************************************)
(* C12: write_output writes one line per text_segment entry, in order,     *)
(* then one per static_segment entry; each line is 8 hex digits of the     *)
(* address, ": ", and 8 hex digits of the word or value.                   *)
(***************************************************************************)
\* s is made of n hex digits
IsHex(s, n) == Len(s) = n /\ \A i \in 1..n : digit_value(s[i], 16) >= 0

\* l is "AAAAAAAA: DDDDDDDD" for the address a and the datum d
IsOutputLine(l, a, d) ==
    /\ Len(l) = 18
    /\ IsHex(SubSeq(l, 1, 8), 8) /\ digits_value(SubSeq(l, 1, 8), 16, 0) = a
    /\ SubSeq(l, 9, 10) = <<":", " ">>
    /\ IsHex(SubSeq(l, 11, 18), 8) /\ digits_value(SubSeq(l, 11, 18), 16, 0) = d

\* C12: the output file holds exactly the lines of the two segments, in order
C12_OutputLines ==
    [][pc = "write_output"
       => (/\ Len(output') = Len(text_segment) + Len(static_segment)
           /\ \A i \in 1..Len(text_segment) :
                 IsOutputLine(output'[i], int(text_segment[i][2], 2).val,
                              int(text_segment[i][1], 2).val)
           /\ \A j \in 1..Len(static_segment) :
                 IsOutputLine(output'[Len(text_segment) + j], static_segment[j][3],
                              int(static_segment[j][2], 16).val))]_vars

(***************************************************************************)
(* The Pascal front end: src/pascal_compiler.                              *)
(* Python values are records tagged with their class in the field py.      *)
(***************************************************************************)
PyStr(s) == [py |-> "str", v |-> s]
PyInt(n) == [py |-> "int", v |-> n]
PyFloat(whole, frac) == [py |-> "float", v |-> <<whole, frac>>]
PyBool(b) == [py |-> "bool", v |-> b]
PyList(items) == [py |-> "list", items |-> items]
PyTuple(items) == [py |-> "tuple", items |-> items]

(***************************************************************************)
(* lexer.py: TOKEN_SPEC and the regular expressions' matching.  A match is *)
(* the position where it ends, -1 when the pattern does not match.         *)
(***************************************************************************)
UpperLetters ==
    {"A", "B", "C", "D", "E", "F", "G", "H", "I", "J", "K", "L", "M", "N", "O", "P",
     "Q", "R", "S", "T", "U", "V", "W", "X", "Y", "Z"}
LowerLetters ==
    {"a", "b", "c", "d", "e", "f", "g", "h", "i", "j", "k", "l", "m", "n", "o", "p",
     "q", "r", "s", "t", "u", "v", "w", "x", "y", "z"}
Digits == {"0", "1", "2", "3", "4", "5", "6", "7", "8", "9"}
\* \w
WordChars == UpperLetters \cup LowerLetters \cup Digits \cup {"_"}

\* the alternatives of the KEYWORD pattern, in its order
KEYWORD_words ==
    <<"AND", "ARRAY", "BEGIN", "CASE", "CONST", "DIV", "DO", "DOWNTO", "ELSE",
      "END", "FILE", "FOR", "FUNCTION", "GOTO", "IF", "IN", "LABEL", "MOD",
      "NIL", "NOT", "OF", "OR", "PACKED", "PROCEDURE", "PROGRAM", "RECORD",
      "REPEAT", "SET", "THEN", "TO", "TYPE", "UNTIL", "VAR", "WHILE", "WITH">>
\* the alternatives of the BOOLEAN pattern
BOOLEAN_words == <<"TRUE", "FALSE">>

\* the characters of the words the patterns and the token kinds are written in
spell ==
    [w \in {KEYWORD_words[i] : i \in 1..Len(KEYWORD_words)} \cup {"TRUE", "FALSE"} |->
        CASE w = "AND" -> <<"A", "N", "D">>
          [] w = "ARRAY" -> <<"A", "R", "R", "A", "Y">>
          [] w = "BEGIN" -> <<"B", "E", "G", "I", "N">>
          [] w = "CASE" -> <<"C", "A", "S", "E">>
          [] w = "CONST" -> <<"C", "O", "N", "S", "T">>
          [] w = "DIV" -> <<"D", "I", "V">>
          [] w = "DO" -> <<"D", "O">>
          [] w = "DOWNTO" -> <<"D", "O", "W", "N", "T", "O">>
          [] w = "ELSE" -> <<"E", "L", "S", "E">>
          [] w = "END" -> <<"E", "N", "D">>
          [] w = "FILE" -> <<"F", "I", "L", "E">>
          [] w = "FOR" -> <<"F", "O", "R">>
          [] w = "FUNCTION" -> <<"F", "U", "N", "C", "T", "I", "O", "N">>
          [] w = "GOTO" -> <<"G", "O", "T", "O">>
          [] w = "IF" -> <<"I", "F">>
          [] w = "IN" -> <<"I", "N">>
          [] w = "LABEL" -> <<"L", "A", "B", "E", "L">>
          [] w = "MOD" -> <<"M", "O", "D">>
          [] w = "NIL" -> <<"N", "I", "L">>
          [] w = "NOT" -> <<"N", "O", "T">>
          [] w = "OF" -> <<"O", "F">>
          [] w = "OR" -> <<"O", "R">>
          [] w = "PACKED" -> <<"P", "A", "C", "K", "E", "D">>
          [] w = "PROCEDURE" -> <<"P", "R", "O", "C", "E", "D", "U", "R", "E">>
          [] w = "PROGRAM" -> <<"P", "R", "O", "G", "R", "A", "M">>
          [] w = "RECORD" -> <<"R", "E", "C", "O", "R", "D">>
          [] w = "REPEAT" -> <<"R", "E", "P", "E", "A", "T">>
          [] w = "SET" -> <<"S", "E", "T">>
          [] w = "THEN" -> <<"T", "H", "E", "N">>
          [] w = "TO" -> <<"T", "O">>
          [] w = "TYPE" -> <<"T", "Y", "P", "E">>
          [] w = "UNTIL" -> <<"U", "N", "T", "I", "L">>
          [] w = "VAR" -> <<"V", "A", "R">>
          [] w = "WHILE" -> <<"W", "H", "I", "L", "E">>
          [] w = "WITH" -> <<"W", "I", "T", "H">>
          [] w = "TRUE" -> <<"T", "R", "U", "E">>
          [] w = "FALSE" -> <<"F", "A", "L", "S", "E">>]

\* the first place at or after p (counted from 0) where s holds c, or -1
RECURSIVE find(_, _, _)
find(s, c, p) ==
    IF p >= Len(s) THEN -1
    ELSE IF s[p + 1] = c THEN p
    ELSE find(s, c, p + 1)

\* where the longest run of characters of S that starts at p ends
RECURSIVE run_end(_, _, _)
run_end(s, p, S) ==
    IF p < Len(s) /\ s[p + 1] \in S THEN run_end(s, p + 1, S) ELSE p

\* s holds the characters of lit from position p on
literal_at(s, p, lit) ==
    p + Len(lit) <= Len(s) /\ SubSeq(s, p + 1, p + Len(lit)) = lit

\* \b at position p: a word character on exactly one side
word_boundary(s, p) ==
    (p > 0 /\ s[p] \in WordChars) # (p < Len(s) /\ s[p + 1] \in WordChars)

\* a literal pattern
match_literal(s, p, lit) == IF literal_at(s, p, lit) THEN p + Len(lit) ELSE -1

\* \b(w1|w2|...)\b: the first alternative, in order, that ends on a boundary;
\* the alternatives of the first half are tried before those of the second
RECURSIVE match_alternatives(_, _, _)
match_alternatives(s, p, words) ==
    IF words = <<>> THEN -1
    ELSE IF Len(words) = 1
    THEN LET w == spell[Head(words)]
         IN IF literal_at(s, p, w) /\ word_boundary(s, p + Len(w)) THEN p + Len(w) ELSE -1
    ELSE LET half == Len(words) \div 2
             end == match_alternatives(s, p, SubSeq(words, 1, half))
         IN IF end >= 0 THEN end
            ELSE match_alternatives(s, p, SubSeq(words, half + 1, Len(words)))

match_words(s, p, words) ==
    IF word_boundary(s, p) THEN match_alternatives(s, p, words) ELSE -1

\* \d+\.\d+
match_REAL(s, p) ==
    LET dot == run_end(s, p, Digits)
        end == run_end(s, dot + 1, Digits)
    IN IF dot > p /\ dot < Len(s) /\ s[dot + 1] = "." /\ end > dot + 1 THEN end ELSE -1

\* \d+
match_INTEGER(s, p) ==
    LET end == run_end(s, p, Digits) IN IF end > p THEN end ELSE -1

\* '[^']*'
match_STRING(s, p) ==
    IF p < Len(s) /\ s[p + 1] = "'" /\ find(s, "'", p + 1) >= 0
    THEN find(s, "'", p + 1) + 1 ELSE -1

\* \b[A-Za-z_][A-Za-z0-9_]*\b
match_ID(s, p) ==
    IF /\ word_boundary(s, p)
       /\ p < Len(s) /\ s[p + 1] \in UpperLetters \cup LowerLetters \cup {"_"}
    THEN run_end(s, p + 1, WordChars) ELSE -1

\* the first place at or after p where "*)" starts with no newline before it
RECURSIVE find_close(_, _)
find_close(s, p) ==
    IF p >= Len(s) \/ s[p + 1] = "\n" THEN -1
    ELSE IF literal_at(s, p, <<"*", ")">>) THEN p
    ELSE find_close(s, p + 1)

\* \{[^}]*\}|\(\*.*?\*\)
match_COMMENT(s, p) ==
    IF p < Len(s) /\ s[p + 1] = "{" /\ find(s, "}", p + 1) >= 0
    THEN find(s, "}", p + 1) + 1
    ELSE IF literal_at(s, p, <<"(", "*">>) /\ find_close(s, p + 2) >= 0
    THEN find_close(s, p + 2) + 2
    ELSE -1

\* [ \t]+
match_SKIP(s, p) ==
    LET end == run_end(s, p, {" ", "\t"}) IN IF end > p THEN end ELSE -1

\* . : any character but a newline
match_MISMATCH(s, p) == IF p < Len(s) /\ s[p + 1] # "\n" THEN p + 1 ELSE -1

\* the kinds of TOKEN_SPEC, in its order
TOKEN_SPEC ==
    <<"REAL", "INTEGER", "ASSIGN", "SEMICOLON", "COLON", "COMMA", "DOT", "LPAREN",
      "RPAREN", "LBRACKET", "RBRACKET", "PLUS", "MINUS", "MUL", "DIV", "LTE", "GTE",
      "EQ", "NEQ", "LT", "GT", "KEYWORD", "BOOLEAN", "STRING", "ID", "COMMENT",
      "NEWLINE", "SKIP", "MISMATCH">>

\* re.compile(pattern).match(code, position) for the pattern of token_type
regex_match(token_type, s, p) ==
    CASE token_type = "REAL" -> match_REAL(s, p)
      [] token_type = "INTEGER" -> match_INTEGER(s, p)
      [] token_type = "ASSIGN" -> match_literal(s, p, <<":", "=">>)
      [] token_type = "SEMICOLON" -> match_literal(s, p, <<";">>)
      [] token_type = "COLON" -> match_literal(s, p, <<":">>)
      [] token_type = "COMMA" -> match_literal(s, p, <<",">>)
      [] token_type = "DOT" -> match_literal(s, p, <<".">>)
      [] token_type = "LPAREN" -> match_literal(s, p, <<"(">>)
      [] token_type = "RPAREN" -> match_literal(s, p, <<")">>)
      [] token_type = "LBRACKET" -> match_literal(s, p, <<"[">>)
      [] token_type = "RBRACKET" -> match_literal(s, p, <<"]">>)
      [] token_type = "PLUS" -> match_literal(s, p, <<"+">>)
      [] token_type = "MINUS" -> match_literal(s, p, <<"-">>)
      [] token_type = "MUL" -> match_literal(s, p, <<"*">>)
      [] token_type = "DIV" -> match_literal(s, p, <<"/">>)
      [] token_type = "LTE" -> match_literal(s, p, <<"<", "=">>)
      [] token_type = "GTE" -> match_literal(s, p, <<">", "=">>)
      [] token_type = "EQ" -> match_literal(s, p, <<"=">>)
      [] token_type = "NEQ" -> match_literal(s, p, <<"<", ">">>)
      [] token_type = "LT" -> match_literal(s, p, <<"<">>)
      [] token_type = "GT" -> match_literal(s, p, <<">">>)
      [] token_type = "KEYWORD" -> match_words(s, p, KEYWORD_words)
      [] token_type = "BOOLEAN" -> match_words(s, p, BOOLEAN_words)
      [] token_type = "STRING" -> match_STRING(s, p)
      [] token_type = "ID" -> match_ID(s, p)
      [] token_type = "COMMENT" -> match_COMMENT(s, p)
      [] token_type = "NEWLINE" -> match_literal(s, p, <<"\n">>)
      [] token_type = "SKIP" -> match_SKIP(s, p)
      [] token_type = "MISMATCH" -> match_MISMATCH(s, p)

(***************************************************************************)
(* lexer.py: Token, Lexer.tokenize, Lexer.update_position                  *)
(***************************************************************************)
Token(type, value, line, column) ==
    [py |-> "Token", type |-> type, value |-> value, line |-> line, column |-> column]

\* float(value) of digits '.' digits: the whole part, and the fraction's
\* digits without its trailing zeros
float(s) ==
    LET dot == find(s, ".", 0)
    IN PyFloat(digits_value(SubSeq(s, 1, dot), 10, 0),
               rstrip_char(SubSeq(s, dot + 2, Len(s)), "0"))

\* the word of KEYWORD or BOOLEAN that is spelled s
word_of(s) == CHOOSE w \in DOMAIN spell : spell[w] = s

\* update_position(value): value.split('\n') counts the lines
update_position(lx, value) ==
    LET newlines == {i \in 1..Len(value) : value[i] = "\n"}
        last == CHOOSE i \in newlines : \A j \in newlines : j <= i
    IN IF newlines # {}
       THEN [lx EXCEPT !.current_line = @ + Cardinality(newlines),
                       !.current_column = (Len(value) - last) + 1]
       ELSE [lx EXCEPT !.current_column = @ + Len(value)]

\* raise LexerError(f'Unexpected character: ...', current_line, current_column)
lexer_raise(lx) ==
    [lx EXCEPT !.status = "raise",
               !.error = [exc |-> "LexerError", message |-> "Unexpected character",
                          line |-> lx.current_line, column |-> lx.current_column]]

\* one turn of the while loop of tokenize: the first pattern of TOKEN_SPEC
\* that matches at position decides
tokenize_step(lx) ==
    LET hits == {i \in 1..Len(TOKEN_SPEC) :
                    regex_match(TOKEN_SPEC[i], lx.code, lx.position) >= 0}
        first == CHOOSE i \in hits : \A j \in hits : i <= j
        token_type == TOKEN_SPEC[first]
        end == regex_match(token_type, lx.code, lx.position)
        group0 == SubSeq(lx.code, lx.position + 1, end)
        value == CASE token_type = "INTEGER" -> PyInt(int(group0, 10).val)
                   [] token_type = "REAL" -> float(group0)
                   [] token_type = "STRING" -> PyStr(SubSeq(group0, 2, Len(group0) - 1))
                   [] OTHER -> PyStr(group0)
        kind == IF token_type = "KEYWORD" THEN word_of(upper(group0)) ELSE token_type
    IN IF hits = {} THEN lexer_raise(lx)
       ELSE IF token_type \in {"COMMENT", "SKIP"}
       THEN [update_position(lx, group0) EXCEPT !.position = end]
       ELSE IF token_type = "NEWLINE"
       THEN [lx EXCEPT !.current_line = @ + 1, !.current_column = 1, !.position = end]
       ELSE [update_position(lx, group0) EXCEPT
                !.tokens = Append(@, Token(kind, value, lx.current_line,
                                           lx.current_column)),
                !.position = end]

\* Lexer(code), as tokenize starts
Lexer(source) ==
    [code |-> source, tokens |-> <<>>, current_line |-> 1, current_column |-> 1,
     position |-> 0, status |-> "run", error |-> None]

RECURSIVE tokenize_loop(_)
tokenize_loop(lx) ==
    IF lx.status # "run" \/ lx.position >= Len(lx.code) THEN lx
    ELSE tokenize_loop(tokenize_step(lx))

\* tokenize(code): the Lexer as tokenize returns or raises
tokenize(source) == tokenize_loop(Lexer(source))

(***************************************************************************)
(* The source texts the lexer-centred runs are started on: up to           *)
(* MaxLexemes pieces, written one after the other.                         *)
(***************************************************************************)
MaxLexemes == 3

X_BEGIN == spell["BEGIN"]
X_begin == <<"b", "e", "g", "i", "n">>
X_Begin == <<"B", "e", "g", "i", "n">>
X_TRUE == spell["TRUE"]
X_x == <<"x">>
X_1 == <<"1">>
X_dot == <<".">>
X_space == <<" ">>
X_newline == <<"\n">>
X_brace_comment == <<"{", "c", "}">>
X_paren_comment == <<"(", "*", "c", "*", ")">>
X_quote == <<"'">>
X_brace == <<"{">>
X_at == <<"@">>

Lexemes ==
    {X_BEGIN, X_begin, X_Begin, X_TRUE, X_x, X_1, X_dot, X_space, X_newline,
     X_brace_comment, X_paren_comment, X_quote, X_brace, X_at}

RECURSIVE concat(_)
\* ''.join(pieces)
concat(pieces) == IF pieces = <<>> THEN <<>> ELSE Head(pieces) \o concat(Tail(pieces))

LexSources == {concat(ps) : ps \in SeqsUpTo(Lexemes, MaxLexemes)}

(***************************************************************************)
(* pascal.py: main reads the source file and calls compile_pascal_code,    *)
(* which calls tokenize, parse, analyze and ast_to_dict in turn.           *)
(***************************************************************************)
\* the assembler, in a run of the Pascal front end: nothing of it exists
NoAssembler ==
    /\ lines = <<>> /\ idx = 1 /\ preprocessed_lines = <<>> /\ include_stack = <<>>
    /\ processing = TRUE /\ condition_stack = <<>> /\ defines = <<>>
    /\ labels = [k \in {} |-> CodeLabel(0)]
    /\ static_segment = <<>> /\ text_segment = <<>> /\ current_address = 0
    /\ output = <<>>

assembler_vars ==
    <<lines, idx, preprocessed_lines, include_stack, processing, condition_stack,
      defines, labels, static_segment, text_segment, current_address, output>>

\* main has read source_code, and tokenize has made its Lexer
PascalStart(source_code) ==
    /\ NoAssembler
    /\ pc = "tokenize" /\ errors = <<>> /\ exit_code = -1
    /\ code = source_code /\ position = 0 /\ tokens = <<>>
    /\ current_line = 1 /\ current_column = 1
    /\ ast = None /\ current_scope = <<>> /\ visiting = <<>> /\ result = None

InitLex == \E source_code \in LexSources : PascalStart(source_code)

\* the Lexer and the local position of tokenize, as one record
LexerState ==
    [code |-> code, tokens |-> tokens, current_line |-> current_line,
     current_column |-> current_column, position |-> position,
     status |-> "run", error |-> None]

\* one turn of the while loop of tokenize; nothing catches a LexerError
TokenizeStep ==
    /\ pc = "tokenize" /\ position < Len(code)
    /\ LET lx == tokenize_step(LexerState)
       IN /\ tokens' = lx.tokens
          /\ position' = lx.position
          /\ current_line' = lx.current_line
          /\ current_column' = lx.current_column
          /\ IF lx.status = "run"
             THEN UNCHANGED <<pc, exit_code, errors>>
             ELSE Exit(1) /\ errors' = Append(errors, lx.error)
    /\ UNCHANGED <<code, ast, current_scope, visiting, result>>
    /\ UNCHANGED assembler_vars

\* tokenize returns self.tokens
TokenizeReturn ==
    /\ pc = "tokenize" /\ position >= Len(code)
    /\ pc' = "parse"
    /\ UNCHANGED <<exit_code, errors, pascal_vars>>
    /\ UNCHANGED assembler_vars

NextLex ==
    \/ TokenizeStep
    \/ TokenizeReturn

\* runs of the lexer on the lexer-centred sources
SpecLex == InitLex /\ [][NextLex]_vars

(***************************************************************************)
(* C13: a character that none of the token patterns (REAL ... SKIP)        *)
(* matches makes tokenize raise LexerError 'Unexpected character' with the *)
(* current line and column; no token is made of it and no list returned.   *)
(* Fails: the catch-all pattern MISMATCH matches it and a token is made.   *)
(***************************************************************************)
AtCharacter == pc = "tokenize" /\ position < Len(code)

\* none of the patterns that stand for a token, a comment or white space
\* matches at position
NoTokenPattern ==
    \A i \in 1..Len(TOKEN_SPEC) :
        TOKEN_SPEC[i] # "MISMATCH" => regex_match(TOKEN_SPEC[i], code, position) < 0

\* C13: an unexpected character ends tokenize with a LexerError at its place
C13_UnexpectedCharacter ==
    [][(AtCharacter /\ NoTokenPattern)
       => (/\ pc' = "exit"
           /\ tokens' = tokens
           /\ errors' = Append(errors,
                    [exc |-> "LexerError", message |-> "Unexpected character",
                     line |-> current_line, column |-> current_column]))]_vars

(***************************************************************************)
(* C14: a keyword written in any letter case is tokenized with the kind of *)
(* the uppercased keyword, never as an ID.                                 *)
(* Fails: the KEYWORD pattern matches upper case only.                     *)
(***************************************************************************)
\* the word that starts at position
CurrentWord == SubSeq(code, position + 1, run_end(code, position, WordChars))

\* a word starts at position, and uppercased it is a keyword
AtKeyword ==
    /\ AtCharacter
    /\ word_boundary(code, position)
    /\ \E i \in 1..Len(KEYWORD_words) : spell[KEYWORD_words[i]] = upper(CurrentWord)

\* C14: a keyword in any letter case gets the uppercased keyword as its kind
C14_KeywordAnyCase ==
    [][AtKeyword
       => (/\ Len(tokens') = Len(tokens) + 1
           /\ tokens'[Len(tokens')].type = word_of(upper(CurrentWord))
           /\ tokens'[Len(tokens')].type # "ID")]_vars

(***************************************************************************)
(* C15: comments of both forms produce no token: the kinds and values of   *)
(* the tokens of a source equal those of the source with every comment     *)
(* replaced by a space.                                                    *)
(* Fails: LPAREN comes before COMMENT in TOKEN_SPEC, so the parenthesis of *)
(* the second form is a token of its own, and so is what follows it.       *)
(***************************************************************************)
\* the first place at or after p where lit starts, or -1
RECURSIVE find_literal(_, _, _)
find_literal(s, lit, p) ==
    IF p + Len(lit) > Len(s) THEN -1
    ELSE IF literal_at(s, p, lit) THEN p
    ELSE find_literal(s, lit, p + 1)

\* s from position p on, with each comment replaced by a space; a string
\* literal is copied whatever it holds
RECURSIVE without_comments(_, _)
without_comments(s, p) ==
    IF p >= Len(s) THEN <<>>
    ELSE IF s[p + 1] = "'" /\ find(s, "'", p + 1) >= 0
    THEN SubSeq(s, p + 1, find(s, "'", p + 1) + 1)
            \o without_comments(s, find(s, "'", p + 1) + 1)
    ELSE IF s[p + 1] = "{" /\ find(s, "}", p + 1) >= 0
    THEN <<" ">> \o without_comments(s, find(s, "}", p + 1) + 1)
    ELSE IF literal_at(s, p, <<"(", "*">>) /\ find_literal(s, <<"*", ")">>, p + 2) >= 0
    THEN <<" ">> \o without_comments(s, find_literal(s, <<"*", ")">>, p + 2) + 2)
    ELSE <<s[p + 1]>> \o without_comments(s, p + 1)

\* two token lists have the same kinds and values
SameKindsAndValues(a, b) ==
    /\ Len(a) = Len(b)
    /\ \A i \in 1..Len(a) :
          /\ a[i].type = b[i].type
          /\ a[i].value.py = b[i].value.py
          /\ a[i].value.v = b[i].value.v

\* C15: the tokens returned are those of the source without its comments
C15_CommentsMakeNoToken ==
    pc = "parse"
    => LET plain == tokenize(without_comments(code, 0))
       IN plain.status = "run" /\ SameKindsAndValues(tokens, plain.tokens)

(***************************************************************************)
(* pascal_parser.py: the classes of the AST.  A node is a record with the  *)
(* class in py and one field per attribute.                                *)
(***************************************************************************)
\* str.lower()
lower(s) ==
    [i \in 1..Len(s) |->
        IF s[i] \in UpperLetters
        THEN CHOOSE c \in DOMAIN LowerToUpper : LowerToUpper[c] = s[i]
        ELSE s[i]]

Program(name, block) == [py |-> "Program", name |-> name, block |-> block]
Block(declarations, compound_statement) ==
    [py |-> "Block", declarations |-> declarations,
     compound_statement |-> compound_statement]
VarDecl(var_node, type_node) ==
    [py |-> "VarDecl", var_node |-> var_node, type_node |-> type_node]
Const(name, value) == [py |-> "Const", name |-> name, value |-> value]
Type(name, type_spec) == [py |-> "Type", name |-> name, type_spec |-> type_spec]
Procedure(name, params, block) ==
    [py |-> "Procedure", name |-> name, params |-> params, block |-> block]
Function(name, params, return_type, block) ==
    [py |-> "Function", name |-> name, params |-> params,
     return_type |-> return_type, block |-> block]
SimpleType(token) == [py |-> "SimpleType", token |-> token, value |-> token.value]
ArrayType(element_type, start, end) ==
    [py |-> "ArrayType", element_type |-> element_type, start |-> start, end |-> end]
Var(token) == [py |-> "Var", token |-> token, value |-> token.value]
Assign(left, op, right) == [py |-> "Assign", left |-> left, op |-> op, right |-> right]
BinOp(left, op, right) == [py |-> "BinOp", left |-> left, op |-> op, right |-> right]
UnaryOp(op, expr) == [py |-> "UnaryOp", op |-> op, expr |-> expr]
Num(token) == [py |-> "Num", token |-> token, value |-> token.value]
String(token) == [py |-> "String", token |-> token, value |-> token.value]
Boolean(token) ==
    [py |-> "Boolean", token |-> token,
     value |-> PyBool(lower(token.value.v) = <<"t", "r", "u", "e">>)]
CompoundStatement(statements) ==
    [py |-> "CompoundStatement", statements |-> statements]
If(condition, then_statement, else_statement) ==
    [py |-> "If", condition |-> condition, then_statement |-> then_statement,
     else_statement |-> else_statement]
While(condition, statement) ==
    [py |-> "While", condition |-> condition, statement |-> statement]
For(var, start, end, statement, direction) ==
    [py |-> "For", var |-> var, start |-> start, end |-> end,
     statement |-> statement, direction |-> direction]
Case(expr, cases, else_case) ==
    [py |-> "Case", expr |-> expr, cases |-> cases, else_case |-> else_case]
ProcedureCall(name, actual_params) ==
    [py |-> "ProcedureCall", name |-> name, actual_params |-> actual_params]
NoOp == [py |-> "NoOp"]

\* the subclasses of ASTNode
ASTNode ==
    {"Program", "Block", "VarDecl", "Const", "Type", "Procedure", "Function",
     "SimpleType", "ArrayType", "Var", "Assign", "BinOp", "UnaryOp", "Num", "String",
     "Boolean", "CompoundStatement", "If", "While", "For", "Case", "ProcedureCall",
     "NoOp"}

\* vars(node): the attributes of a node, in the order __init__ sets them
attributes(cls) ==
    CASE cls = "Program" -> <<"name", "block">>
      [] cls = "Block" -> <<"declarations", "compound_statement">>
      [] cls = "VarDecl" -> <<"var_node", "type_node">>
      [] cls = "Const" -> <<"name", "value">>
      [] cls = "Type" -> <<"name", "type_spec">>
      [] cls = "Procedure" -> <<"name", "params", "block">>
      [] cls = "Function" -> <<"name", "params", "return_type", "block">>
      [] cls \in {"SimpleType", "Var", "Num", "String", "Boolean"} -> <<"token", "value">>
      [] cls = "ArrayType" -> <<"element_type", "start", "end">>
      [] cls \in {"Assign", "BinOp"} -> <<"left", "op", "right">>
      [] cls = "UnaryOp" -> <<"op", "expr">>
      [] cls = "CompoundStatement" -> <<"statements">>
      [] cls = "If" -> <<"condition", "then_statement", "else_statement">>
      [] cls = "While" -> <<"condition", "statement">>
      [] cls = "For" -> <<"var", "start", "end", "statement", "direction">>
      [] cls = "Case" -> <<"expr", "cases", "else_case">>
      [] cls = "ProcedureCall" -> <<"name", "actual_params">>
      [] cls = "NoOp" -> <<>>




(***************************************************************************)
(* pascal_parser.py: Parser.  A method is an operator on the parser p      *)
(* (tokens, token_index, current_token) that gives the parser it leaves    *)
(* and the node it returns; once an exception is raised (status "raise")   *)
(* every method returns at once.  What a method keeps in a local variable  *)
(* is the parameter of a local operator here, which goes on only when the  *)
(* call that gave the value has returned, and a method calls another as    *)
(* self(method, p, arg).                                                   *)
(***************************************************************************)
\* what a method returns: the parser, and the node when nothing was raised
Ret(p, node) == [p |-> p, node |-> IF p.status = "run" THEN node ELSE None]

\* self.current_token is a Token, not None
has_token(p) == p.current_token.py = "Token"

\* self.current_token.type of a parser that has a token, "" else
token_type(p) == IF has_token(p) THEN p.current_token.type ELSE ""

advance(p) ==
    LET i == p.token_index + 1
    IN [p EXCEPT !.token_index = i,
                 !.current_token = IF i < Len(p.tokens) THEN p.tokens[i + 1] ELSE None]

\* Parser(tokens)
Parser(toks) ==
    advance([tokens |-> toks, current_token |-> None, token_index |-> -1,
             status |-> "run", error |-> None])

\* self.error(message): raise CompilerError(message, self.current_token)
error(p, message) ==
    IF p.status # "run" THEN p
    ELSE [p EXCEPT !.status = "raise",
                   !.error = [exc |-> "CompilerError", message |-> message,
                              token |-> p.current_token]]

\* an attribute of self.current_token is read: AttributeError when it is None
read_token(p) ==
    IF p.status = "run" /\ ~has_token(p)
    THEN [p EXCEPT !.status = "raise",
                   !.error = [exc |-> "AttributeError",
                              message |-> <<"'NoneType' object has no attribute">>,
                              token |-> None]]
    ELSE p

eat(p, kind) ==
    IF p.status # "run" THEN p
    ELSE IF has_token(p) /\ p.current_token.type = kind THEN advance(p)
    ELSE error(p, <<"Expected", kind, "found",
                    IF has_token(p) THEN p.current_token.type ELSE "EOF">>)

\* self.create_token(type, value)
create_token(type, value) == Token(type, value, 0, 0)

RECURSIVE self(_, _, _)

\* Var(self.current_token), then self.eat('ID')
var_then_eat_ID(p) ==
    LET p1 == read_token(p)
    IN Ret(eat(p1, "ID"), Var(p1.current_token))

\* the while loop of variable_declaration: more names after commas
variable_declaration_loop(p, var_nodes) ==
    LET p1 == read_token(p)
    IN IF p1.status # "run" THEN Ret(p1, None)
       ELSE IF p1.current_token.type # "COMMA" THEN Ret(p1, var_nodes)
       ELSE LET v == var_then_eat_ID(eat(p1, "COMMA"))
            IN IF v.p.status # "run" THEN v
               ELSE self("variable_declaration_loop", v.p, Append(var_nodes, v.node))

variable_declaration(p) ==
    LET made(vs, t) == Ret(t.p, [i \in 1..Len(vs.node) |-> VarDecl(vs.node[i], t.node)])
        typed(vs) == IF vs.p.status # "run" THEN vs
                     ELSE made(vs, self("type_spec", eat(vs.p, "COLON"), None))
        named(v) == IF v.p.status # "run" THEN v
                    ELSE typed(self("variable_declaration_loop", v.p, <<v.node>>))
    IN named(var_then_eat_ID(p))

type_spec(p) ==
    LET p1 == read_token(p)
        token == p1.current_token
    IN CASE p1.status # "run" -> Ret(p1, None)
         [] token.type \in {"INTEGER", "REAL", "BOOLEAN", "CHAR", "STRING"} ->
                Ret(eat(p1, token.type), SimpleType(token))
         [] token.type = "ARRAY" -> self("array_type_spec", p1, None)
         [] token.type = "ID" -> Ret(eat(p1, "ID"), SimpleType(token))
         [] OTHER -> Ret(error(p1, <<"Unexpected type", token.type>>), None)

array_type_spec(p) ==
    LET made(start, end, element_type) ==
            Ret(element_type.p, ArrayType(element_type.node, start.node, end.node))
        elements(start, end) ==
            IF end.p.status # "run" THEN end
            ELSE made(start, end, self("type_spec", eat(eat(end.p, "RBRACKET"), "OF"), None))
        bounded(start) ==
            IF start.p.status # "run" THEN start
            ELSE elements(start, self("expr", eat(eat(start.p, "DOT"), "DOT"), None))
    IN bounded(self("expr", eat(eat(p, "ARRAY"), "LBRACKET"), None))

\* the while loop of var_declaration: declarations as long as an ID comes
var_declaration_loop(p, var_declarations) ==
    LET p1 == read_token(p)
        more(d) == IF d.p.status # "run" THEN d
                   ELSE self("var_declaration_loop", eat(d.p, "SEMICOLON"),
                                             var_declarations \o d.node)
    IN IF p1.status # "run" THEN Ret(p1, None)
       ELSE IF p1.current_token.type # "ID" THEN Ret(p1, var_declarations)
       ELSE more(self("variable_declaration", p1, None))

var_declaration(p) == self("var_declaration_loop", eat(p, "VAR"), <<>>)

\* the while loop of formal_parameters: more declarations after semicolons
formal_parameters_loop(p, param_nodes) ==
    LET p1 == read_token(p)
        more(d) == IF d.p.status # "run" THEN d
                   ELSE self("formal_parameters_loop", d.p, param_nodes \o d.node)
    IN IF p1.status # "run" THEN Ret(p1, None)
       ELSE IF p1.current_token.type # "SEMICOLON" THEN Ret(p1, param_nodes)
       ELSE more(self("variable_declaration", eat(p1, "SEMICOLON"), None))

formal_parameters(p) ==
    LET p1 == read_token(p)
        more(d) == IF d.p.status # "run" THEN d
                   ELSE self("formal_parameters_loop", d.p, d.node)
    IN IF p1.status # "run" THEN Ret(p1, None)
       ELSE IF p1.current_token.type = "ID" THEN more(self("variable_declaration", p1, None))
       ELSE Ret(p1, <<>>)

formal_parameter_list(p) ==
    LET closed(params) == IF params.p.status # "run" THEN params
                          ELSE Ret(eat(params.p, "RPAREN"), params.node)
    IN closed(self("formal_parameters", eat(p, "LPAREN"), None))

\* proc_name = self.current_token.value; self.eat('ID'); the parameters, if
\* a parenthesis comes
name_and_params(p) ==
    LET p1 == read_token(p)
        p2 == read_token(eat(p1, "ID"))
        made(params) ==
            IF params.p.status # "run" THEN params
            ELSE Ret(params.p, [name |-> p1.current_token.value, params |-> params.node])
    IN made(IF p2.status = "run" /\ p2.current_token.type = "LPAREN"
            THEN self("formal_parameter_list", p2, None) ELSE Ret(p2, <<>>))

procedure_declaration(p) ==
    LET made(head, body) ==
            IF body.p.status # "run" THEN body
            ELSE Ret(eat(body.p, "SEMICOLON"),
                     Procedure(head.node.name, PyList(head.node.params), body.node))
        headed(head) == IF head.p.status # "run" THEN head
                        ELSE made(head, self("block", eat(head.p, "SEMICOLON"), None))
    IN headed(self("name_and_params", eat(p, "PROCEDURE"), None))

function_declaration(p) ==
    LET made(head, return_type, body) ==
            IF body.p.status # "run" THEN body
            ELSE Ret(eat(body.p, "SEMICOLON"),
                     Function(head.node.name, PyList(head.node.params), return_type.node,
                              body.node))
        typed(head, return_type) ==
            IF return_type.p.status # "run" THEN return_type
            ELSE made(head, return_type,
                      self("block", eat(return_type.p, "SEMICOLON"), None))
        headed(head) == IF head.p.status # "run" THEN head
                        ELSE typed(head, self("type_spec", eat(head.p, "COLON"), None))
    IN headed(self("name_and_params", eat(p, "FUNCTION"), None))

\* the while loop of declarations: procedures and functions
declarations_loop(p, decls) ==
    LET p1 == read_token(p)
        more(d) == IF d.p.status # "run" THEN d
                   ELSE self("declarations_loop", d.p, Append(decls, d.node))
    IN CASE p1.status # "run" -> Ret(p1, None)
         [] p1.current_token.type = "PROCEDURE" ->
                more(self("procedure_declaration", p1, None))
         [] p1.current_token.type = "FUNCTION" -> more(self("function_declaration", p1, None))
         [] OTHER -> Ret(p1, decls)

declarations(p) ==
    LET p1 == read_token(p)
        more(v) == IF v.p.status # "run" THEN v
                   ELSE self("declarations_loop", v.p, v.node)
    IN more(IF p1.status = "run" /\ p1.current_token.type = "VAR"
            THEN self("var_declaration", p1, None) ELSE Ret(p1, <<>>))

block(p) ==
    LET made(d, c) == IF c.p.status # "run" THEN c
                      ELSE Ret(c.p, Block(PyList(d.node), c.node))
        declared(d) == IF d.p.status # "run" THEN d
                       ELSE made(d, self("compound_statement", d.p, None))
    IN declared(self("declarations", p, None))

program(p) ==
    LET p1 == read_token(eat(p, "PROGRAM"))
        made(body) ==
            IF body.p.status # "run" THEN body
            ELSE Ret(eat(body.p, "DOT"), Program(p1.current_token.value, body.node))
    IN made(self("block", eat(eat(p1, "ID"), "SEMICOLON"), None))

compound_statement(p) ==
    LET made(statements) ==
            IF statements.p.status # "run" THEN statements
            ELSE Ret(eat(statements.p, "END"), CompoundStatement(PyList(statements.node)))
        listed(first) ==
            IF first.p.status # "run" THEN first
            ELSE made(self("statement_list_loop", first.p, <<first.node>>))
    IN listed(self("statement", eat(p, "BEGIN"), None))

\* the while loop of statement_list: more statements after semicolons
statement_list_loop(p, results) ==
    LET p1 == read_token(p)
        more(s) == IF s.p.status # "run" THEN s
                   ELSE self("statement_list_loop", s.p, Append(results, s.node))
    IN IF p1.status # "run" THEN Ret(p1, None)
       ELSE IF p1.current_token.type # "SEMICOLON" THEN Ret(p1, results)
       ELSE more(self("statement", eat(p1, "SEMICOLON"), None))

statement(p) ==
    LET p1 == read_token(p)
        kind == p1.current_token.type
    IN CASE p1.status # "run" -> Ret(p1, None)
         [] kind = "BEGIN" -> self("compound_statement", p1, None)
         [] kind = "ID" -> self("assignment_statement", p1, None)
         [] kind = "IF" -> self("if_statement", p1, None)
         [] kind = "WHILE" -> self("while_statement", p1, None)
         [] kind = "FOR" -> self("for_statement", p1, None)
         [] kind = "CASE" -> self("case_statement", p1, None)
         [] kind = "SEMICOLON" -> Ret(eat(p1, "SEMICOLON"), NoOp)
         [] OTHER -> Ret(p1, NoOp)

\* an attribute of a node is read that its class does not have
attribute_error(p) ==
    IF p.status # "run" THEN p
    ELSE [p EXCEPT !.status = "raise",
                   !.error = [exc |-> "AttributeError",
                              message |-> <<"object has no attribute">>,
                              token |-> None]]

assignment_statement(p) ==
    LET made(left, token, right) ==
            IF right.p.status # "run" THEN right
            ELSE Ret(right.p, Assign(left.node, token, right.node))
        assigned(left, p1) ==
            IF p1.status # "run" THEN Ret(p1, None)
            ELSE IF p1.current_token.type = "ASSIGN"
            THEN made(left, p1.current_token, self("expr", eat(p1, "ASSIGN"), None))
            ELSE IF left.node.py = "Var" THEN self("procedure_call", p1, left.node.value)
            ELSE Ret(attribute_error(p1), None)
        named(left) == IF left.p.status # "run" THEN left
                       ELSE assigned(left, read_token(left.p))
    IN named(self("variable", p, None))

if_statement(p) ==
    LET made(condition, then_statement, else_statement) ==
            IF else_statement.p.status # "run" THEN else_statement
            ELSE Ret(else_statement.p,
                     If(condition.node, then_statement.node, else_statement.node))
        otherwise(condition, then_statement, p1) ==
            made(condition, then_statement,
                 IF p1.status = "run" /\ p1.current_token.type = "ELSE"
                 THEN self("statement", eat(p1, "ELSE"), None) ELSE Ret(p1, None))
        consequent(condition, then_statement) ==
            IF then_statement.p.status # "run" THEN then_statement
            ELSE otherwise(condition, then_statement, read_token(then_statement.p))
        conditioned(condition) ==
            IF condition.p.status # "run" THEN condition
            ELSE consequent(condition, self("statement", eat(condition.p, "THEN"), None))
    IN conditioned(self("expr", eat(p, "IF"), None))

while_statement(p) ==
    LET made(condition, body) == IF body.p.status # "run" THEN body
                                 ELSE Ret(body.p, While(condition.node, body.node))
        conditioned(condition) ==
            IF condition.p.status # "run" THEN condition
            ELSE made(condition, self("statement", eat(condition.p, "DO"), None))
    IN conditioned(self("expr", eat(p, "WHILE"), None))

for_statement(p) ==
    LET made(var, start, to, end, body) ==
            IF body.p.status # "run" THEN body
            ELSE Ret(body.p, For(var.node, start.node, end.node, body.node,
                                 PyStr(spell[IF to THEN "TO" ELSE "DOWNTO"])))
        ended(var, start, to, end) ==
            IF end.p.status # "run" THEN end
            ELSE made(var, start, to, end, self("statement", eat(end.p, "DO"), None))
        directed(var, start, p1, to) ==
            ended(var, start, to, self("expr", eat(p1, IF to THEN "TO" ELSE "DOWNTO"), None))
        started(var, start, p1) ==
            directed(var, start, p1, p1.status = "run" /\ p1.current_token.type = "TO")
        counted(var, start) == IF start.p.status # "run" THEN start
                               ELSE started(var, start, read_token(start.p))
        named(var) == IF var.p.status # "run" THEN var
                      ELSE counted(var, self("expr", eat(var.p, "ASSIGN"), None))
    IN named(self("variable", eat(p, "FOR"), None))

\* the while loop of case_statement: cases as long as a literal comes
case_loop(p, cases) ==
    LET p1 == read_token(p)
        more(case_value, case_statement_) ==
            IF case_statement_.p.status # "run" THEN case_statement_
            ELSE self("case_loop", eat(case_statement_.p, "SEMICOLON"),
                      Append(cases, PyTuple(<<case_value.node, case_statement_.node>>)))
        valued(case_value) ==
            IF case_value.p.status # "run" THEN case_value
            ELSE more(case_value, self("statement", eat(case_value.p, "COLON"), None))
    IN IF p1.status # "run" THEN Ret(p1, None)
       ELSE IF p1.current_token.type \notin {"INTEGER", "STRING"} THEN Ret(p1, cases)
       ELSE valued(self("expr", p1, None))

case_statement(p) ==
    LET made(scrutinee, cases, else_case, p2) ==
            Ret(eat(p2, "END"), Case(scrutinee.node, PyList(cases.node), else_case))
        otherwise(scrutinee, cases, else_stmt) ==
            IF else_stmt.p.status # "run" THEN else_stmt
            ELSE made(scrutinee, cases, else_stmt.node, eat(else_stmt.p, "SEMICOLON"))
        listed(scrutinee, cases, p1) ==
            IF p1.status = "run" /\ p1.current_token.type = "ELSE"
            THEN otherwise(scrutinee, cases, self("statement", eat(p1, "ELSE"), None))
            ELSE made(scrutinee, cases, None, p1)
        cased(scrutinee, cases) == IF cases.p.status # "run" THEN cases
                                   ELSE listed(scrutinee, cases, read_token(cases.p))
        selected(scrutinee) ==
            IF scrutinee.p.status # "run" THEN scrutinee
            ELSE cased(scrutinee, self("case_loop", eat(scrutinee.p, "OF"), <<>>))
    IN selected(self("expr", eat(p, "CASE"), None))

\* the while loop of procedure_call: more arguments after commas
procedure_call_loop(p, actual_params) ==
    LET p1 == read_token(p)
        more(a) == IF a.p.status # "run" THEN a
                   ELSE self("procedure_call_loop", a.p, Append(actual_params, a.node))
    IN IF p1.status # "run" THEN Ret(p1, None)
       ELSE IF p1.current_token.type # "COMMA" THEN Ret(p1, actual_params)
       ELSE more(self("expr", eat(p1, "COMMA"), None))

procedure_call(p, proc_name) ==
    LET p1 == read_token(p)
        p2 == read_token(eat(p1, "LPAREN"))
        made(args) ==
            IF args.p.status # "run" THEN args
            ELSE Ret(eat(args.p, "RPAREN"), ProcedureCall(proc_name, PyList(args.node)))
        more(a) == IF a.p.status # "run" THEN a
                   ELSE self("procedure_call_loop", a.p, <<a.node>>)
    IN IF p1.status # "run" THEN Ret(p1, None)
       ELSE IF p1.current_token.type # "LPAREN"
       THEN Ret(p1, ProcedureCall(proc_name, PyList(<<>>)))
       ELSE made(IF p2.status = "run" /\ p2.current_token.type # "RPAREN"
                 THEN more(self("expr", p2, None)) ELSE Ret(p2, <<>>))

variable(p) ==
    LET v == var_then_eat_ID(p)
        p1 == read_token(v.p)
        made(index) ==
            IF index.p.status # "run" THEN index
            ELSE Ret(eat(index.p, "RBRACKET"),
                     BinOp(v.node, create_token("INDEX", PyStr(<<"[", "]">>)), index.node))
    IN IF p1.status # "run" THEN Ret(p1, None)
       ELSE IF p1.current_token.type = "LBRACKET" THEN made(self("expr", eat(p1, "LBRACKET"), None))
       ELSE Ret(p1, v.node)

\* the while loop of expr: its operators, from the left
expr_loop(p, node) ==
    LET more(right) ==
            IF right.p.status # "run" THEN right
            ELSE self("expr_loop", right.p, BinOp(node, p.current_token, right.node))
    IN IF p.status = "run" /\ token_type(p) \in {"EQ", "NEQ", "LT", "LTE", "GT", "GTE"}
       THEN more(self("simple_expr", eat(p, p.current_token.type), None))
       ELSE Ret(p, node)

expr(p) ==
    LET more(left) == IF left.p.status # "run" THEN left
                      ELSE self("expr_loop", left.p, left.node)
    IN more(self("simple_expr", p, None))

\* a slip in the additive level: the right operand is a whole simple_expr, so
\* the operators of this level associate to the right
simple_expr_loop_right(p, node) ==
    LET more(right) ==
            IF right.p.status # "run" THEN right
            ELSE Ret(right.p, BinOp(node, p.current_token, right.node))
    IN IF p.status = "run" /\ token_type(p) \in {"PLUS", "MINUS", "OR"}
       THEN more(self("simple_expr", eat(p, p.current_token.type), None))
       ELSE Ret(p, node)

simple_expr_loop(p, node) ==
    LET more(right) ==
            IF right.p.status # "run" THEN right
            ELSE self("simple_expr_loop", right.p, BinOp(node, p.current_token, right.node))
    IN IF p.status = "run" /\ token_type(p) \in {"PLUS", "MINUS", "OR"}
       THEN more(self("term", eat(p, p.current_token.type), None))
       ELSE Ret(p, node)

simple_expr(p) ==
    LET more(left) == IF left.p.status # "run" THEN left
                      ELSE self("simple_expr_loop", left.p, left.node)
    IN more(self("term", p, None))

term_loop(p, node) ==
    LET more(right) ==
            IF right.p.status # "run" THEN right
            ELSE self("term_loop", right.p, BinOp(node, p.current_token, right.node))
    IN IF p.status = "run" /\ token_type(p) \in {"MUL", "DIV", "AND"}
       THEN more(self("factor", eat(p, p.current_token.type), None))
       ELSE Ret(p, node)

term(p) ==
    LET more(left) == IF left.p.status # "run" THEN left
                      ELSE self("term_loop", left.p, left.node)
    IN more(self("factor", p, None))

variable_or_procedure_call(p) ==
    LET called(node, p1) ==
            IF p1.status = "run" /\ node.node.py = "Var" /\ p1.current_token.type = "LPAREN"
            THEN self("procedure_call", p1, node.node.value)
            ELSE Ret(p1, node.node)
        named(node) ==
            IF node.p.status # "run" THEN node
            ELSE called(node, IF node.node.py = "Var" THEN read_token(node.p) ELSE node.p)
    IN named(self("variable", p, None))

factor(p) ==
    LET p1 == read_token(p)
        token == p1.current_token
        signed(operand) == IF operand.p.status # "run" THEN operand
                           ELSE Ret(operand.p, UnaryOp(token, operand.node))
        closed(inner) == IF inner.p.status # "run" THEN inner
                         ELSE Ret(eat(inner.p, "RPAREN"), inner.node)
    IN CASE p1.status # "run" -> Ret(p1, None)
         [] token.type \in {"PLUS", "MINUS"} ->
                signed(self("factor", eat(p1, token.type), None))
         [] token.type \in {"INTEGER", "REAL"} -> Ret(eat(p1, token.type), Num(token))
         [] token.type = "STRING" -> Ret(eat(p1, "STRING"), String(token))
         [] token.type = "BOOLEAN" -> Ret(eat(p1, "BOOLEAN"), Boolean(token))
         [] token.type = "LPAREN" -> closed(self("expr", eat(p1, "LPAREN"), None))
         [] token.type = "ID" -> self("variable_or_procedure_call", p1, None)
         [] OTHER -> Ret(error(p1, <<"Unexpected token", token.type>>), None)

\* self.method(...): the method of that name, on the parser p
self(method, p, arg) ==
    CASE method = "variable_declaration_loop" -> variable_declaration_loop(p, arg)
      [] method = "variable_declaration" -> variable_declaration(p)
      [] method = "type_spec" -> type_spec(p)
      [] method = "array_type_spec" -> array_type_spec(p)
      [] method = "var_declaration_loop" -> var_declaration_loop(p, arg)
      [] method = "var_declaration" -> var_declaration(p)
      [] method = "formal_parameters_loop" -> formal_parameters_loop(p, arg)
      [] method = "formal_parameters" -> formal_parameters(p)
      [] method = "formal_parameter_list" -> formal_parameter_list(p)
      [] method = "name_and_params" -> name_and_params(p)
      [] method = "procedure_declaration" -> procedure_declaration(p)
      [] method = "function_declaration" -> function_declaration(p)
      [] method = "declarations_loop" -> declarations_loop(p, arg)
      [] method = "declarations" -> declarations(p)
      [] method = "block" -> block(p)
      [] method = "program" -> program(p)
      [] method = "compound_statement" -> compound_statement(p)
      [] method = "statement_list_loop" -> statement_list_loop(p, arg)
      [] method = "statement" -> statement(p)
      [] method = "assignment_statement" -> assignment_statement(p)
      [] method = "if_statement" -> if_statement(p)
      [] method = "while_statement" -> while_statement(p)
      [] method = "for_statement" -> for_statement(p)
      [] method = "case_loop" -> case_loop(p, arg)
      [] method = "case_statement" -> case_statement(p)
      [] method = "procedure_call_loop" -> procedure_call_loop(p, arg)
      [] method = "procedure_call" -> procedure_call(p, arg)
      [] method = "variable" -> variable(p)
      [] method = "expr_loop" -> expr_loop(p, arg)
      [] method = "expr" -> expr(p)
      [] method = "simple_expr_loop" -> simple_expr_loop(p, arg)
      [] method = "simple_expr" -> simple_expr(p)
      [] method = "term_loop" -> term_loop(p, arg)
      [] method = "term" -> term(p)
      [] method = "variable_or_procedure_call" -> variable_or_procedure_call(p)
      [] method = "factor" -> factor(p)

\* Parser.parse
Parser_parse(p) ==
    LET ended(node) ==
            IF node.p.status # "run" THEN node
            ELSE IF has_token(node.p)
            THEN Ret(error(node.p, <<"Unexpected token after end of program">>), None)
            ELSE node
    IN ended(self("program", p, None))

\* parse(tokens)
parse(toks) == Parser_parse(Parser(toks))

(***************************************************************************)
(* semantic_analyzer.py: the symbols and ScopedSymbolTable.  A scope is    *)
(* given with its enclosing scopes, as the sequence from the global scope  *)
(* to the scope itself.                                                    *)
(***************************************************************************)
VariableSymbol(name, type) == [py |-> "VariableSymbol", name |-> name, type |-> type]
ConstantSymbol(name, type, value) ==
    [py |-> "ConstantSymbol", name |-> name, type |-> type, value |-> value]
ProcedureSymbol(name, params) ==
    [py |-> "ProcedureSymbol", name |-> name, type |-> None, params |-> params]
FunctionSymbol(name, params, return_type) ==
    [py |-> "FunctionSymbol", name |-> name, type |-> None, params |-> params,
     return_type |-> return_type]

ScopedSymbolTable(scope_name, scope_level) ==
    [symbols |-> [k \in {} |-> None], scope_name |-> scope_name,
     scope_level |-> scope_level]

\* self.symbols[symbol.name] = symbol, in the innermost scope
insert(scope, symbol) ==
    [scope EXCEPT ![Len(scope)].symbols =
        [k \in (DOMAIN @) \cup {symbol.name} |-> IF k = symbol.name THEN symbol ELSE @[k]]]

RECURSIVE lookup_enclosing(_, _, _)
\* the enclosing scopes are searched whatever current_scope_only is
lookup_enclosing(scope, name, current_scope_only) ==
    IF scope = <<>> THEN None
    ELSE IF name \in DOMAIN scope[Len(scope)].symbols
    THEN scope[Len(scope)].symbols[name]
    ELSE lookup_enclosing(SubSeq(scope, 1, Len(scope) - 1), name, current_scope_only)

RECURSIVE lookup(_, _, _)
lookup(scope, name, current_scope_only) ==
    IF scope = <<>> THEN None
    ELSE IF name \in DOMAIN scope[Len(scope)].symbols
    THEN scope[Len(scope)].symbols[name]
    ELSE IF current_scope_only THEN None
    ELSE lookup(SubSeq(scope, 1, Len(scope) - 1), name, FALSE)

\* the scope left is kept as the current scope
enclosing_scope_kept(scope) == scope

\* self.current_scope.enclosing_scope
enclosing_scope(scope) == SubSeq(scope, 1, Len(scope) - 1)

(***************************************************************************)
(* semantic_analyzer.py: SemanticAnalyzer, on expressions and statements.  *)
(* visit gives the value returned, or the exception raised.                *)
(***************************************************************************)
Returns(value) == [status |-> "run", value |-> value, error |-> None]
Raises(exc, message) ==
    [status |-> "raise", value |-> None, error |-> [exc |-> exc, message |-> message]]

\* the name of a simple type, as a str
TypeName(word) ==
    PyStr(CASE word = "INTEGER" -> <<"I", "N", "T", "E", "G", "E", "R">>
            [] word = "REAL" -> <<"R", "E", "A", "L">>
            [] word = "STRING" -> <<"S", "T", "R", "I", "N", "G">>
            [] word = "BOOLEAN" -> <<"B", "O", "O", "L", "E", "A", "N">>)

\* SimpleType(self.create_type_token(type_name))
simple_type(word) == SimpleType(Token(word, TypeName(word), 0, 0))

\* a number as the pair of its whole part and the digits of its fraction
number(a) ==
    CASE a.py = "int" -> <<a.v, <<>>>>
      [] a.py = "float" -> a.v
      [] a.py = "bool" -> <<IF a.v THEN 1 ELSE 0, <<>>>>

\* a == b
py_equals(a, b) ==
    IF a.py \in {"int", "float", "bool"} /\ b.py \in {"int", "float", "bool"}
    THEN number(a) = number(b)
    ELSE a.py = b.py /\ a.py = "str" /\ a.v = b.v

\* t.value == 'WORD', for a SimpleType t
is_type(t, word) == py_equals(t.value, TypeName(word))

\* a node that has the attribute value
has_value(node) == node.py \in {"SimpleType", "Var", "Num", "String", "Boolean"}

\* compatible only when equal: no conversion between INTEGER and REAL
check_type_equality(type1, type2) ==
    Returns(/\ type1.py = "SimpleType" /\ type2.py = "SimpleType"
            /\ py_equals(type1.value, type2.value))

RECURSIVE check_type_compatibility(_, _)
\* _check_type_compatibility: the bool returned, or the exception raised
check_type_compatibility(type1, type2) ==
    IF type1.py = "SimpleType" /\ type2.py = "SimpleType"
    THEN IF \/ is_type(type1, "REAL") /\ is_type(type2, "INTEGER")
            \/ is_type(type1, "INTEGER") /\ is_type(type2, "REAL")
         THEN Returns(TRUE)
         ELSE Returns(py_equals(type1.value, type2.value))
    ELSE IF type1.py = "ArrayType" /\ type2.py = "ArrayType"
    THEN LET elements == check_type_compatibility(type1.element_type, type2.element_type)
         IN IF elements.status # "run" \/ ~elements.value THEN elements
            ELSE IF ~has_value(type1.start) \/ ~has_value(type2.start)
            THEN Raises("AttributeError", <<"object has no attribute 'value'">>)
            ELSE IF ~py_equals(type1.start.value, type2.start.value) THEN Returns(FALSE)
            ELSE IF ~has_value(type1.end) \/ ~has_value(type2.end)
            THEN Raises("AttributeError", <<"object has no attribute 'value'">>)
            ELSE Returns(py_equals(type1.end.value, type2.end.value))
    ELSE Returns(FALSE)

\* the exception of an error message that reads t.value: the CompilerError,
\* or the AttributeError of a t that has no value
message_with(message, types) ==
    IF \A i \in 1..Len(types) : types[i].py = "SimpleType"
    THEN Raises("CompilerError", message)
    ELSE Raises("AttributeError", <<"object has no attribute 'value'">>)

\* isinstance(t, SimpleType) and t.value == 'WORD'
is_simple(t, word) == t.py = "SimpleType" /\ is_type(t, word)

\* t.value in ('WORD', ...)
value_in(t, words) == \E word \in words : is_type(t, word)

RECURSIVE visit(_, _), visit_Assign(_, _), visit_BinOp(_, _), visit_UnaryOp(_, _),
          visit_CompoundStatement(_, _), visit_statements(_, _), visit_If(_, _),
          visit_While(_, _), visit_For(_, _), visit_Case(_, _), visit_cases(_, _, _),
          visit_ProcedureCall(_, _), visit_arguments(_, _, _, _, _)

visit_SimpleType(node) == Returns(node)

visit_ArrayType(node) == Returns(node)

visit_Var(scope, node) ==
    LET var_symbol == lookup(scope, node.value, FALSE)
    IN IF var_symbol.py = "None"
       THEN Raises("CompilerError", <<"Symbol(identifier) not found", node.value>>)
       ELSE IF var_symbol.type.py = "None"
       THEN Raises("CompilerError", <<"Type information missing for variable", node.value>>)
       ELSE Returns(var_symbol.type)

visit_Assign(scope, node) ==
    LET right_type == visit(scope, node.right)
        left == visit(scope, node.left)
        compatible == check_type_compatibility(left.value, right_type.value)
    IN IF right_type.status # "run" THEN right_type
       ELSE IF left.status # "run" THEN left
       ELSE IF left.value.py # "SimpleType"
       THEN Raises("CompilerError", <<"Invalid left-hand side in assignment", left.value.py>>)
       ELSE IF compatible.status # "run" THEN compatible
       ELSE IF ~compatible.value
       THEN message_with(<<"Incompatible types in assignment", left.value.value,
                           right_type.value.value>>,
                         <<left.value, right_type.value>>)
       ELSE Returns(left.value)

visit_BinOp(scope, node) ==
    LET l == visit(scope, node.left)
        r == visit(scope, node.right)
        left_type == l.value
        right_type == r.value
        op == node.op.type
        both == <<left_type, right_type>>
        simple == left_type.py = "SimpleType" /\ right_type.py = "SimpleType"
    IN IF l.status # "run" THEN l
       ELSE IF r.status # "run" THEN r
       ELSE IF left_type.py = "None"
       THEN Raises("CompilerError", <<"Unable to determine type for left operand", op>>)
       ELSE IF right_type.py = "None"
       THEN Raises("CompilerError", <<"Unable to determine type for right operand", op>>)
       ELSE IF op = "INDEX"
       THEN IF left_type.py # "ArrayType"
            THEN message_with(<<"Indexing operation not supported for type",
                                left_type.value>>, <<left_type>>)
            ELSE IF ~is_simple(right_type, "INTEGER")
            THEN message_with(<<"Array index must be of type INTEGER, got",
                                right_type.value>>, <<right_type>>)
            ELSE Returns(left_type.element_type)
       ELSE IF op \in {"PLUS", "MINUS", "MUL", "DIV"}
       THEN IF ~simple
            THEN message_with(<<"Invalid types for arithmetic operator", op>>, both)
            ELSE IF \/ ~value_in(left_type, {"INTEGER", "REAL"})
                    \/ ~value_in(right_type, {"INTEGER", "REAL"})
            THEN Raises("CompilerError", <<"Invalid types for arithmetic operator", op,
                                           left_type.value, right_type.value>>)
            ELSE IF is_type(left_type, "REAL") \/ is_type(right_type, "REAL")
            THEN Returns(simple_type("REAL"))
            ELSE Returns(simple_type("INTEGER"))
       ELSE IF op \in {"EQ", "NEQ", "LT", "LTE", "GT", "GTE"}
       THEN IF ~simple
            THEN message_with(<<"Invalid types for comparison operator", op>>, both)
            ELSE IF \/ ~value_in(left_type, {"INTEGER", "REAL", "STRING", "BOOLEAN"})
                    \/ ~value_in(right_type, {"INTEGER", "REAL", "STRING", "BOOLEAN"})
            THEN Raises("CompilerError", <<"Invalid types for comparison operator", op,
                                           left_type.value, right_type.value>>)
            ELSE IF /\ ~py_equals(left_type.value, right_type.value)
                    /\ ~(/\ value_in(left_type, {"INTEGER", "REAL"})
                         /\ value_in(right_type, {"INTEGER", "REAL"}))
            THEN Raises("CompilerError", <<"Incompatible types for comparison operator", op,
                                           left_type.value, right_type.value>>)
            ELSE Returns(simple_type("BOOLEAN"))
       ELSE IF op \in {"AND", "OR"}
       THEN IF ~simple
            THEN message_with(<<"Invalid types for logical operator", op>>, both)
            ELSE IF ~is_type(left_type, "BOOLEAN") \/ ~is_type(right_type, "BOOLEAN")
            THEN Raises("CompilerError", <<"Invalid types for logical operator", op,
                                           left_type.value, right_type.value>>)
            ELSE Returns(simple_type("BOOLEAN"))
       ELSE Raises("CompilerError", <<"Unsupported binary operator", op>>)

visit_UnaryOp(scope, node) ==
    LET e == visit(scope, node.expr)
        expr_type == e.value
        op == node.op.type
    IN IF e.status # "run" THEN e
       ELSE IF op \in {"PLUS", "MINUS"}
       THEN IF ~(expr_type.py = "SimpleType" /\ value_in(expr_type, {"INTEGER", "REAL"}))
            THEN message_with(<<"Invalid type for unary operator", op>>, <<expr_type>>)
            ELSE Returns(expr_type)
       ELSE IF op = "NOT"
       THEN IF ~is_simple(expr_type, "BOOLEAN")
            THEN message_with(<<"Invalid type for unary operator", op>>, <<expr_type>>)
            ELSE Returns(expr_type)
       ELSE Returns(None)

visit_Num(node) ==
    IF node.value.py = "int" THEN Returns(simple_type("INTEGER"))
    ELSE IF node.value.py = "float" THEN Returns(simple_type("REAL"))
    ELSE Raises("CompilerError", <<"Unexpected numeric type", node.value.py>>)

visit_String(node) == Returns(simple_type("STRING"))

visit_Boolean(node) == Returns(simple_type("BOOLEAN"))

\* the for loop of visit_CompoundStatement, over the statements left
visit_statements(scope, statements) ==
    IF statements = <<>> THEN Returns(None)
    ELSE LET first == visit(scope, Head(statements))
         IN IF first.status # "run" THEN first
            ELSE visit_statements(scope, Tail(statements))

visit_CompoundStatement(scope, node) == visit_statements(scope, node.statements.items)

visit_If(scope, node) ==
    LET condition_type == visit(scope, node.condition)
        then_statement == visit(scope, node.then_statement)
        else_statement == visit(scope, node.else_statement)
    IN IF condition_type.status # "run" THEN condition_type
       ELSE IF ~is_simple(condition_type.value, "BOOLEAN")
       THEN Raises("CompilerError", <<"Condition in IF statement must be of type BOOLEAN">>)
       ELSE IF then_statement.status # "run" THEN then_statement
       ELSE IF else_statement.status # "run" THEN else_statement
       ELSE Returns(None)

visit_While(scope, node) ==
    LET condition_type == visit(scope, node.condition)
        statement_ == visit(scope, node.statement)
    IN IF condition_type.status # "run" THEN condition_type
       ELSE IF ~is_simple(condition_type.value, "BOOLEAN")
       THEN Raises("CompilerError", <<"Condition in WHILE statement must be of type BOOLEAN">>)
       ELSE IF statement_.status # "run" THEN statement_
       ELSE Returns(None)

visit_For(scope, node) ==
    LET var_type == visit(scope, node.var)
        start_type == visit(scope, node.start)
        end_type == visit(scope, node.end)
        statement_ == visit(scope, node.statement)
    IN IF var_type.status # "run" THEN var_type
       ELSE IF start_type.status # "run" THEN start_type
       ELSE IF end_type.status # "run" THEN end_type
       ELSE IF ~is_simple(var_type.value, "INTEGER")
       THEN Raises("CompilerError",
                   <<"Loop variable in FOR statement must be of type INTEGER">>)
       ELSE IF ~is_simple(start_type.value, "INTEGER")
       THEN Raises("CompilerError",
                   <<"Start value in FOR statement must be of type INTEGER">>)
       ELSE IF ~is_simple(end_type.value, "INTEGER")
       THEN Raises("CompilerError", <<"End value in FOR statement must be of type INTEGER">>)
       ELSE IF statement_.status # "run" THEN statement_
       ELSE Returns(None)

\* the for loop of visit_Case, over the cases left
visit_cases(scope, expr_type, cases) ==
    IF cases = <<>> THEN Returns(None)
    ELSE LET case_value_type == visit(scope, Head(cases).items[1])
             compatible == check_type_compatibility(expr_type, case_value_type.value)
             case_statement_ == visit(scope, Head(cases).items[2])
         IN IF case_value_type.status # "run" THEN case_value_type
            ELSE IF compatible.status # "run" THEN compatible
            ELSE IF ~compatible.value
            THEN Raises("CompilerError", <<"Incompatible types in CASE statement">>)
            ELSE IF case_statement_.status # "run" THEN case_statement_
            ELSE visit_cases(scope, expr_type, Tail(cases))

visit_Case(scope, node) ==
    LET expr_type == visit(scope, node.expr)
        cases == visit_cases(scope, expr_type.value, node.cases.items)
        else_case == visit(scope, node.else_case)
    IN IF expr_type.status # "run" THEN expr_type
       ELSE IF cases.status # "run" THEN cases
       ELSE IF else_case.status # "run" THEN else_case
       ELSE Returns(None)

\* the for loop of visit_ProcedureCall, over zip(symbol.params, node.actual_params)
visit_arguments(scope, node, params, actual_params, i) ==
    IF params = <<>> \/ actual_params = <<>> THEN Returns(None)
    ELSE LET arg_type == visit(scope, Head(actual_params))
             compatible == check_type_compatibility(Head(params).type, arg_type.value)
         IN IF arg_type.status # "run" THEN arg_type
            ELSE IF compatible.status # "run" THEN compatible
            ELSE IF ~compatible.value
            THEN Raises("CompilerError",
                        <<"Incompatible argument type for parameter", i + 1, node.name>>)
            ELSE visit_arguments(scope, node, Tail(params), Tail(actual_params), i + 1)

visit_ProcedureCall(scope, node) ==
    LET symbol == lookup(scope, node.name, FALSE)
        arguments == visit_arguments(scope, node, symbol.params, node.actual_params.items, 0)
    IN IF symbol.py \notin {"ProcedureSymbol", "FunctionSymbol"}
       THEN Raises("CompilerError", <<"Undefined procedure", node.name>>)
       ELSE IF Len(node.actual_params.items) # Len(symbol.params)
       THEN Raises("CompilerError",
                   <<"Procedure called with wrong number of arguments", node.name>>)
       ELSE IF arguments.status # "run" THEN arguments
       ELSE IF symbol.py = "FunctionSymbol" THEN Returns(symbol.return_type)
       ELSE Returns(None)

visit_NoOp(node) == Returns(None)

\* SemanticAnalyzer.visit on the nodes of statements and expressions: the
\* value the visit_ method of the class returns, or the exception it raises
visit(scope, node) ==
    CASE node.py = "None" -> Returns(None)
      [] node.py = "SimpleType" -> visit_SimpleType(node)
      [] node.py = "ArrayType" -> visit_ArrayType(node)
      [] node.py = "Var" -> visit_Var(scope, node)
      [] node.py = "Assign" -> visit_Assign(scope, node)
      [] node.py = "BinOp" -> visit_BinOp(scope, node)
      [] node.py = "UnaryOp" -> visit_UnaryOp(scope, node)
      [] node.py = "Num" -> visit_Num(node)
      [] node.py = "String" -> visit_String(node)
      [] node.py = "Boolean" -> visit_Boolean(node)
      [] node.py = "CompoundStatement" -> visit_CompoundStatement(scope, node)
      [] node.py = "If" -> visit_If(scope, node)
      [] node.py = "While" -> visit_While(scope, node)
      [] node.py = "For" -> visit_For(scope, node)
      [] node.py = "Case" -> visit_Case(scope, node)
      [] node.py = "ProcedureCall" -> visit_ProcedureCall(scope, node)
      [] node.py = "NoOp" -> visit_NoOp(node)

(***************************************************************************)
(* semantic_analyzer.py: analyze(ast), one step per declaration, per       *)
(* statement of a block and per scope left.  visiting holds what the       *)
(* visit_ methods that were entered still have to do, the next first.      *)
(***************************************************************************)
Visit(node) == [do |-> "visit", node |-> node]
Leave(node) == [do |-> "leave", node |-> node]

Declarations == {"VarDecl", "Const", "Type"}
Subprograms == {"Procedure", "Function"}

\* 'global'
global == PyStr(<<"g", "l", "o", "b", "a", "l">>)

\* visit_Block: the declarations, then the compound statement
visit_Block(node) ==
    [i \in 1..Len(node.declarations.items) |-> Visit(node.declarations.items[i])]
        \o <<Visit(node.compound_statement)>>

\* visit_VarDecl and visit_Const up to the lookup: the symbol made of the
\* declaration, or the exception raised
declared_symbol(scope, node) ==
    LET type_symbol == visit(scope, IF node.py = "VarDecl" THEN node.type_node ELSE node.value)
    IN IF type_symbol.status # "run" THEN type_symbol
       ELSE IF node.py = "VarDecl"
       THEN Returns(VariableSymbol(node.var_node.value, type_symbol.value))
       ELSE IF ~has_value(node.value)
       THEN Raises("AttributeError", <<"object has no attribute 'value'">>)
       ELSE Returns(ConstantSymbol(node.name, type_symbol.value, node.value.value))

\* the for loop over node.params: the symbols of the parameters
parameters(scope, node) ==
    [i \in 1..Len(node.params.items) |->
        VariableSymbol(node.params.items[i].var_node.value,
                       visit(scope, node.params.items[i].type_node).value)]

\* the symbol visit_Procedure and visit_Function make, with the parameters
\* the loop appends to it
subprogram_symbol(scope, node) ==
    IF node.py = "Procedure" THEN ProcedureSymbol(node.name, parameters(scope, node))
    ELSE FunctionSymbol(node.name, parameters(scope, node),
                        visit(scope, node.return_type).value)

RECURSIVE insert_all(_, _)
\* the for loop over node.params: every parameter inserted, no lookup before
insert_all(scope, symbols) ==
    IF symbols = <<>> THEN scope
    ELSE insert_all(insert(scope, Head(symbols)), Tail(symbols))

\* the scope of a procedure or function, entered with its parameters
subprogram_scope(scope, node) ==
    insert_all(Append(insert(scope, subprogram_symbol(scope, node)),
                      ScopedSymbolTable(node.name, scope[Len(scope)].scope_level + 1)),
               parameters(scope, node))

duplicate_identifier(name) ==
    [exc |-> "CompilerError", message |-> <<"Duplicate identifier", name>>]

\* str(e) of the CompilerError of semantic_analyzer.py, which is raised
\* without line and column
str_of(e) == <<"Semantic error: ">> \o e.message

\* a str that is a name of the program text, a class or a token type
PyName(word) == [py |-> "str", name |-> word]

\* a dict, as its keys and their values in order
PyDict(keys, values) == [py |-> "dict", keys |-> keys, values |-> values]

\* {"error": str(e)}
error_dict(e) == PyDict(<<"error">>, <<PyStr(str_of(e))>>)

\* an exception leaves analyze, which prints it: compile_pascal_code returns
\* the error of a CompilerError to main; any other exception ends the run
AnalyzeRaises(e) ==
    /\ errors' = Append(errors, e)
    /\ IF e.exc = "CompilerError"
       THEN pc' = "main" /\ result' = error_dict(e) /\ exit_code' = exit_code
       ELSE Exit(1) /\ result' = result

Visiting(classes) ==
    /\ pc = "analyze"
    /\ visiting # <<>>
    /\ Head(visiting).do = "visit"
    /\ Head(visiting).node.py \in classes

VisitProgram ==
    /\ Visiting({"Program"})
    /\ current_scope' = <<ScopedSymbolTable(global, 1)>>
    /\ visiting' = visit_Block(Head(visiting).node.block)
                       \o <<Leave(Head(visiting).node)>> \o Tail(visiting)
    /\ UNCHANGED <<pc, exit_code, errors, result>>
    /\ UNCHANGED <<code, position, tokens, current_line, current_column, ast>>
    /\ UNCHANGED assembler_vars

\* visit_VarDecl, visit_Const, visit_Type
VisitDeclaration ==
    /\ Visiting(Declarations)
    /\ LET node == Head(visiting).node
           symbol == declared_symbol(current_scope, node)
       IN IF node.py = "Type"
          THEN /\ visiting' = Tail(visiting)
               /\ UNCHANGED <<pc, exit_code, errors, result, current_scope>>
          ELSE IF symbol.status # "run"
          THEN /\ AnalyzeRaises(symbol.error)
               /\ UNCHANGED <<current_scope, visiting>>
          ELSE IF lookup(current_scope, symbol.value.name, TRUE).py # "None"
          THEN /\ AnalyzeRaises(duplicate_identifier(symbol.value.name))
               /\ UNCHANGED <<current_scope, visiting>>
          ELSE /\ current_scope' = insert(current_scope, symbol.value)
               /\ visiting' = Tail(visiting)
               /\ UNCHANGED <<pc, exit_code, errors, result>>
    /\ UNCHANGED <<code, position, tokens, current_line, current_column, ast>>
    /\ UNCHANGED assembler_vars

\* visit_Procedure, visit_Function, up to the visit of the block
VisitSubprogram ==
    /\ Visiting(Subprograms)
    /\ LET node == Head(visiting).node
       IN IF lookup(current_scope, node.name, TRUE).py # "None"
          THEN /\ AnalyzeRaises(duplicate_identifier(node.name))
               /\ UNCHANGED <<current_scope, visiting>>
          ELSE /\ current_scope' = subprogram_scope(current_scope, node)
               /\ visiting' = visit_Block(node.block) \o <<Leave(node)>> \o Tail(visiting)
               /\ UNCHANGED <<pc, exit_code, errors, result>>
    /\ UNCHANGED <<code, position, tokens, current_line, current_column, ast>>
    /\ UNCHANGED assembler_vars

\* visit_CompoundStatement of the compound statement of a block, one
\* statement at a step
VisitCompoundStatement ==
    /\ Visiting({"CompoundStatement"})
    /\ visiting' = [i \in 1..Len(Head(visiting).node.statements.items) |->
                       Visit(Head(visiting).node.statements.items[i])] \o Tail(visiting)
    /\ UNCHANGED <<pc, exit_code, errors, result, current_scope>>
    /\ UNCHANGED <<code, position, tokens, current_line, current_column, ast>>
    /\ UNCHANGED assembler_vars

\* a statement of the compound statement of a block
VisitStatement ==
    /\ Visiting(ASTNode \ (Declarations \cup Subprograms \cup
                           {"Program", "Block", "CompoundStatement"}))
    /\ LET visited == visit(current_scope, Head(visiting).node)
       IN IF visited.status = "run"
          THEN /\ visiting' = Tail(visiting)
               /\ UNCHANGED <<pc, exit_code, errors, result>>
          ELSE /\ AnalyzeRaises(visited.error)
               /\ UNCHANGED visiting
    /\ UNCHANGED <<code, position, tokens, current_line, current_column, ast, current_scope>>
    /\ UNCHANGED assembler_vars

\* self.current_scope = self.current_scope.enclosing_scope
LeaveScope ==
    /\ pc = "analyze"
    /\ visiting # <<>>
    /\ Head(visiting).do = "leave"
    /\ current_scope' = enclosing_scope(current_scope)
    /\ visiting' = Tail(visiting)
    /\ UNCHANGED <<pc, exit_code, errors, result>>
    /\ UNCHANGED <<code, position, tokens, current_line, current_column, ast>>
    /\ UNCHANGED assembler_vars

\* analyze returns: compile_pascal_code goes on to ast_to_dict(ast)
AnalyzeReturn ==
    /\ pc = "analyze"
    /\ visiting = <<>>
    /\ pc' = "ast_to_dict"
    /\ UNCHANGED <<exit_code, errors, pascal_vars>>
    /\ UNCHANGED assembler_vars

(***************************************************************************)
(* pascal.py: compile_pascal_code after tokenize, and main after it.       *)
(***************************************************************************)
\* parse(tokens): nothing catches the CompilerError of pascal_parser.py, nor
\* an AttributeError
Parse ==
    /\ pc = "parse"
    /\ LET parsed == parse(tokens)
       IN IF parsed.p.status = "run"
          THEN /\ ast' = parsed.node
               /\ visiting' = <<Visit(parsed.node)>>
               /\ pc' = "analyze"
               /\ UNCHANGED <<exit_code, errors>>
          ELSE /\ errors' = Append(errors, parsed.p.error)
               /\ Exit(1)
               /\ UNCHANGED <<ast, visiting>>
    /\ UNCHANGED <<code, position, tokens, current_line, current_column, current_scope, result>>
    /\ UNCHANGED assembler_vars

RECURSIVE ast_to_dict(_)
ast_to_dict(node) ==
    IF node.py = "list"
    THEN PyList([i \in 1..Len(node.items) |-> ast_to_dict(node.items[i])])
    ELSE IF node.py \notin ASTNode THEN node
    ELSE PyDict(<<"type">> \o attributes(node.py),
                <<PyName(node.py)>> \o
                [i \in 1..Len(attributes(node.py)) |->
                    LET attr == attributes(node.py)[i]
                    IN IF attr = "token"
                       THEN PyDict(<<"type", "value">>,
                                   <<PyName(node[attr].type), node[attr].value>>)
                       ELSE ast_to_dict(node[attr])])

RECURSIVE json_serializable(_)
\* json.dumps(value) raises no TypeError
json_serializable(value) ==
    IF value.py \in {"str", "int", "float", "bool", "None"} THEN TRUE
    ELSE IF value.py \in {"list", "tuple"}
    THEN \A i \in 1..Len(value.items) : json_serializable(value.items[i])
    ELSE IF value.py = "dict"
    THEN \A i \in 1..Len(value.values) : json_serializable(value.values[i])
    ELSE FALSE

\* return ast_to_dict(ast)
AstToDict ==
    /\ pc = "ast_to_dict"
    /\ result' = ast_to_dict(ast)
    /\ pc' = "main"
    /\ UNCHANGED <<exit_code, errors>>
    /\ UNCHANGED <<code, position, tokens, current_line, current_column, ast, current_scope,
                   visiting>>
    /\ UNCHANGED assembler_vars

\* main after compile_pascal_code: the error or the JSON text is printed and
\* main returns, unless json.dumps raises
MainPrint ==
    /\ pc = "main"
    /\ IF \E i \in 1..Len(result.keys) : result.keys[i] = "error"
       THEN /\ errors' = Append(errors, [exc |-> "Compilation error",
                                         message |-> result.values[1].v])
            /\ Exit(0)
       ELSE IF json_serializable(result)
       THEN Exit(0) /\ UNCHANGED errors
       ELSE /\ errors' = Append(errors, [exc |-> "TypeError",
                                         message |-> <<"Object is not JSON serializable">>])
            /\ Exit(1)
    /\ UNCHANGED pascal_vars
    /\ UNCHANGED assembler_vars

(***************************************************************************)
(* The source files main is run on.                                        *)
(***************************************************************************)
\* PROGRAM T; BEGIN END.
Pas_empty ==
    <<"P", "R", "O", "G", "R", "A", "M", " ", "T", ";", " ", "B", "E", "G", "I", "N", " ", "E",
      "N", "D", ".">>

\* PROGRAM T; VAR x: INTEGER; BEGIN x := 1 END.
Pas_assign ==
    <<"P", "R", "O", "G", "R", "A", "M", " ", "T", ";", " ", "V", "A", "R", " ", "x", ":", " ",
      "I", "N", "T", "E", "G", "E", "R", ";", " ", "B", "E", "G", "I", "N", " ", "x", " ", ":",
      "=", " ", "1", " ", "E", "N", "D", ".">>

\* PROGRAM T; VAR x: INTEGER; BEGIN x := TRUE END.
Pas_incompatible ==
    <<"P", "R", "O", "G", "R", "A", "M", " ", "T", ";", " ", "V", "A", "R", " ", "x", ":", " ",
      "I", "N", "T", "E", "G", "E", "R", ";", " ", "B", "E", "G", "I", "N", " ", "x", " ", ":",
      "=", " ", "T", "R", "U", "E", " ", "E", "N", "D", ".">>

\* PROGRAM T; VAR x: INTEGER; x: REAL; BEGIN END.
Pas_duplicate ==
    <<"P", "R", "O", "G", "R", "A", "M", " ", "T", ";", " ", "V", "A", "R", " ", "x", ":", " ",
      "I", "N", "T", "E", "G", "E", "R", ";", " ", "x", ":", " ", "R", "E", "A", "L", ";", " ",
      "B", "E", "G", "I", "N", " ", "E", "N", "D", ".">>

\* PROGRAM T; BEGIN
Pas_no_end ==
    <<"P", "R", "O", "G", "R", "A", "M", " ", "T", ";", " ", "B", "E", "G", "I", "N">>

\* PROGRAM T; BEGIN END
Pas_no_dot ==
    <<"P", "R", "O", "G", "R", "A", "M", " ", "T", ";", " ", "B", "E", "G", "I", "N", " ", "E",
      "N", "D">>

\* PROGRAM T; BEGIN @ END.
Pas_mismatch ==
    <<"P", "R", "O", "G", "R", "A", "M", " ", "T", ";", " ", "B", "E", "G", "I", "N", " ", "@",
      " ", "E", "N", "D", ".">>

\* PROGRAM T; VAR x: INTEGER; BEGIN CASE x OF 1: x := 2; END END.
Pas_case ==
    <<"P", "R", "O", "G", "R", "A", "M", " ", "T", ";", " ", "V", "A", "R", " ", "x", ":", " ",
      "I", "N", "T", "E", "G", "E", "R", ";", " ", "B", "E", "G", "I", "N", " ", "C", "A", "S",
      "E", " ", "x", " ", "O", "F", " ", "1", ":", " ", "x", " ", ":", "=", " ", "2", ";", " ",
      "E", "N", "D", " ", "E", "N", "D", ".">>

\* PROGRAM T; VAR x: REAL; PROCEDURE p(y: INTEGER); VAR z: REAL; BEGIN END; BEGIN x := 1.5 END.
Pas_procedure ==
    <<"P", "R", "O", "G", "R", "A", "M", " ", "T", ";", " ", "V", "A", "R", " ", "x", ":", " ",
      "R", "E", "A", "L", ";", " ", "P", "R", "O", "C", "E", "D", "U", "R", "E", " ", "p", "(",
      "y", ":", " ", "I", "N", "T", "E", "G", "E", "R", ")", ";", " ", "V", "A", "R", " ", "z",
      ":", " ", "R", "E", "A", "L", ";", " ", "B", "E", "G", "I", "N", " ", "E", "N", "D", ";",
      " ", "B", "E", "G", "I", "N", " ", "x", " ", ":", "=", " ", "1", ".", "5", " ", "E", "N",
      "D", ".">>

\* PROGRAM T; FUNCTION f(y: REAL): REAL; BEGIN END; BEGIN END.
Pas_function ==
    <<"P", "R", "O", "G", "R", "A", "M", " ", "T", ";", " ", "F", "U", "N", "C", "T", "I", "O",
      "N", " ", "f", "(", "y", ":", " ", "R", "E", "A", "L", ")", ":", " ", "R", "E", "A", "L",
      ";", " ", "B", "E", "G", "I", "N", " ", "E", "N", "D", ";", " ", "B", "E", "G", "I", "N",
      " ", "E", "N", "D", ".">>

\* PROGRAM T; VAR x: INTEGER; BEGIN x := 1 + 2 END.
Pas_sum ==
    <<"P", "R", "O", "G", "R", "A", "M", " ", "T", ";", " ", "V", "A", "R", " ", "x", ":", " ",
      "I", "N", "T", "E", "G", "E", "R", ";", " ", "B", "E", "G", "I", "N", " ", "x", " ", ":",
      "=", " ", "1", " ", "+", " ", "2", " ", "E", "N", "D", ".">>

PasSources ==
    {Pas_empty, Pas_assign, Pas_incompatible, Pas_duplicate,
     Pas_no_end, Pas_no_dot, Pas_mismatch, Pas_case,
     Pas_procedure, Pas_function, Pas_sum}

(***************************************************************************)
(* The programs analyze is called on: PROGRAM T with some declarations,    *)
(* some procedures and functions, and some statements.  The nodes are the  *)
(* ones parse returns on the text written above each, with tokens whose    *)
(* line and column are 0: analyze reads no line and no column.             *)
(***************************************************************************)
MaxDeclarations == 2
MaxStatements == 1

\* x: INTEGER;
Decl_x_INTEGER ==
    VarDecl(Var(create_token("ID", PyStr(<<"x">>))),
            SimpleType(create_token("ID", PyStr(<<"I", "N", "T", "E", "G", "E", "R">>))))

\* x: REAL;
Decl_x_REAL ==
    VarDecl(Var(create_token("ID", PyStr(<<"x">>))),
            SimpleType(create_token("ID", PyStr(<<"R", "E", "A", "L">>))))

\* y: BOOLEAN;
Decl_y_BOOLEAN ==
    VarDecl(Var(create_token("ID", PyStr(<<"y">>))),
            SimpleType(create_token("ID", PyStr(<<"B", "O", "O", "L", "E", "A", "N">>))))

\* y: STRING;
Decl_y_STRING ==
    VarDecl(Var(create_token("ID", PyStr(<<"y">>))),
            SimpleType(create_token("ID", PyStr(<<"S", "T", "R", "I", "N", "G">>))))

\* y: REAL;
Decl_y_REAL ==
    VarDecl(Var(create_token("ID", PyStr(<<"y">>))),
            SimpleType(create_token("ID", PyStr(<<"R", "E", "A", "L">>))))

\* y: INTEGER;
Decl_y_INTEGER ==
    VarDecl(Var(create_token("ID", PyStr(<<"y">>))),
            SimpleType(create_token("ID", PyStr(<<"I", "N", "T", "E", "G", "E", "R">>))))

\* x: BOOLEAN;
Decl_x_BOOLEAN ==
    VarDecl(Var(create_token("ID", PyStr(<<"x">>))),
            SimpleType(create_token("ID", PyStr(<<"B", "O", "O", "L", "E", "A", "N">>))))

\* c: BOOLEAN;
Decl_c_BOOLEAN ==
    VarDecl(Var(create_token("ID", PyStr(<<"c">>))),
            SimpleType(create_token("ID", PyStr(<<"B", "O", "O", "L", "E", "A", "N">>))))

\* x := 1
Stmt_x_1 ==
    Assign(Var(create_token("ID", PyStr(<<"x">>))),
           create_token("ASSIGN", PyStr(<<":", "=">>)),
           Num(create_token("INTEGER", PyInt(1))))

\* x := 1.5
Stmt_x_1_5 ==
    Assign(Var(create_token("ID", PyStr(<<"x">>))),
           create_token("ASSIGN", PyStr(<<":", "=">>)),
           Num(create_token("REAL", PyFloat(1, <<"5">>))))

\* x := TRUE
Stmt_x_TRUE ==
    Assign(Var(create_token("ID", PyStr(<<"x">>))),
           create_token("ASSIGN", PyStr(<<":", "=">>)),
           Boolean(create_token("BOOLEAN", PyStr(<<"T", "R", "U", "E">>))))

\* x := y
Stmt_x_y ==
    Assign(Var(create_token("ID", PyStr(<<"x">>))),
           create_token("ASSIGN", PyStr(<<":", "=">>)),
           Var(create_token("ID", PyStr(<<"y">>))))

\* y := 's'
Stmt_y_s ==
    Assign(Var(create_token("ID", PyStr(<<"y">>))),
           create_token("ASSIGN", PyStr(<<":", "=">>)),
           String(create_token("STRING", PyStr(<<"s">>))))

\* x := c
Stmt_x_c ==
    Assign(Var(create_token("ID", PyStr(<<"x">>))),
           create_token("ASSIGN", PyStr(<<":", "=">>)),
           Var(create_token("ID", PyStr(<<"c">>))))

\* y := TRUE
Stmt_y_TRUE ==
    Assign(Var(create_token("ID", PyStr(<<"y">>))),
           create_token("ASSIGN", PyStr(<<":", "=">>)),
           Boolean(create_token("BOOLEAN", PyStr(<<"T", "R", "U", "E">>))))

\* y := x
Stmt_y_x ==
    Assign(Var(create_token("ID", PyStr(<<"y">>))),
           create_token("ASSIGN", PyStr(<<":", "=">>)),
           Var(create_token("ID", PyStr(<<"x">>))))

\* y := 1
Stmt_y_1 ==
    Assign(Var(create_token("ID", PyStr(<<"y">>))),
           create_token("ASSIGN", PyStr(<<":", "=">>)),
           Num(create_token("INTEGER", PyInt(1))))

\* a constant c = 1: the parser never builds a Const
Const_c == Const(PyStr(<<"c">>), Num(create_token("INTEGER", PyInt(1))))

\* PROCEDURE p; VAR y: REAL; BEGIN y := 1 END;
Proc_local ==
    Procedure(PyStr(<<"p">>),
              PyList(<<>>),
              Block(PyList(<<Decl_y_REAL>>), CompoundStatement(PyList(<<Stmt_y_1>>))))

\* PROCEDURE p(x: BOOLEAN); BEGIN x := TRUE END;
Proc_param ==
    Procedure(PyStr(<<"p">>),
              PyList(<<Decl_x_BOOLEAN>>),
              Block(PyList(<<>>), CompoundStatement(PyList(<<Stmt_x_TRUE>>))))

\* PROCEDURE q; BEGIN x := 1 END;
Proc_outer ==
    Procedure(PyStr(<<"q">>),
              PyList(<<>>),
              Block(PyList(<<>>), CompoundStatement(PyList(<<Stmt_x_1>>))))

\* PROCEDURE x; BEGIN END;
Proc_x ==
    Procedure(PyStr(<<"x">>),
              PyList(<<>>),
              Block(PyList(<<>>), CompoundStatement(PyList(<<NoOp>>))))

\* FUNCTION f(y: REAL): REAL; VAR c: BOOLEAN; BEGIN x := y END;
Func_f ==
    Function(PyStr(<<"f">>),
             PyList(<<Decl_y_REAL>>),
             SimpleType(create_token("ID", PyStr(<<"R", "E", "A", "L">>))),
             Block(PyList(<<Decl_c_BOOLEAN>>), CompoundStatement(PyList(<<Stmt_x_y>>))))

\* PROCEDURE r; VAR x: REAL; x: INTEGER; BEGIN END;
Proc_twice ==
    Procedure(PyStr(<<"r">>),
              PyList(<<>>),
              Block(PyList(<<Decl_x_REAL, Decl_x_INTEGER>>),
                    CompoundStatement(PyList(<<NoOp>>))))

\* PROCEDURE p; VAR y: INTEGER; PROCEDURE q; VAR x: BOOLEAN; BEGIN x := TRUE; y := 1 END; BEGIN x := 1 END;
Proc_nested ==
    Procedure(PyStr(<<"p">>),
              PyList(<<>>),
              Block(PyList(<<Decl_y_INTEGER,
                             Procedure(PyStr(<<"q">>),
                                       PyList(<<>>),
                                       Block(PyList(<<Decl_x_BOOLEAN>>),
                                             CompoundStatement(PyList(<<Stmt_x_TRUE,
                                                                        Stmt_y_1>>))))>>),
                    CompoundStatement(PyList(<<Stmt_x_1>>))))

\* PROCEDURE s(y: INTEGER; y: REAL); BEGIN END;
Proc_params_twice ==
    Procedure(PyStr(<<"s">>),
              PyList(<<Decl_y_INTEGER, Decl_y_REAL>>),
              Block(PyList(<<>>), CompoundStatement(PyList(<<NoOp>>))))

\* FUNCTION g(x: BOOLEAN; x: BOOLEAN): REAL; BEGIN END;
Func_params_twice ==
    Function(PyStr(<<"g">>),
             PyList(<<Decl_x_BOOLEAN, Decl_x_BOOLEAN>>),
             SimpleType(create_token("ID", PyStr(<<"R", "E", "A", "L">>))),
             Block(PyList(<<>>), CompoundStatement(PyList(<<NoOp>>))))

\* the pools are sequences, and a program takes its pieces by their places
DeclarationPool == <<Decl_x_INTEGER, Decl_x_REAL, Decl_y_BOOLEAN, Decl_y_STRING, Const_c>>

\* the procedures and functions of a program
SubprogramSections ==
    <<<<>>, <<Proc_local>>, <<Proc_param>>, <<Proc_outer>>, <<Proc_x>>, <<Func_f>>,
      <<Proc_twice>>, <<Proc_nested>>, <<Proc_local, Proc_param>>, <<Func_f, Func_f>>,
      <<Proc_params_twice>>, <<Func_params_twice>>>>

StatementPool ==
    <<Stmt_x_1, Stmt_x_1_5, Stmt_x_TRUE, Stmt_x_y, Stmt_y_s, Stmt_x_c, Stmt_y_TRUE, Stmt_y_x>>

\* the pieces of pool at the places picks
Picked(pool, picks) == [i \in 1..Len(picks) |-> pool[picks[i]]]

\* the Program analyze is called on: BEGIN END holds one NoOp
AnalyzedProgram(decls, subprograms, statements) ==
    Program(PyStr(<<"T">>),
            Block(PyList(decls \o subprograms),
                  CompoundStatement(PyList(IF statements = <<>> THEN <<NoOp>>
                                           ELSE statements))))

\* compile_pascal_code at the call analyze(ast)
PascalAnalyze(tree) ==
    /\ NoAssembler
    /\ pc = "analyze" /\ errors = <<>> /\ exit_code = -1
    /\ code = <<>> /\ position = 0 /\ tokens = <<>>
    /\ current_line = 1 /\ current_column = 1
    /\ ast = tree /\ current_scope = <<>> /\ visiting = <<Visit(tree)>>
    /\ result = None

InitSem ==
    \E decls \in SeqsUpTo(DOMAIN DeclarationPool, MaxDeclarations),
       subprograms \in DOMAIN SubprogramSections,
       statements \in SeqsUpTo(DOMAIN StatementPool, MaxStatements) :
        PascalAnalyze(AnalyzedProgram(Picked(DeclarationPool, decls),
                                      SubprogramSections[subprograms],
                                      Picked(StatementPool, statements)))

NextSem ==
    \/ VisitProgram
    \/ VisitDeclaration
    \/ VisitSubprogram
    \/ VisitCompoundStatement
    \/ VisitStatement
    \/ LeaveScope
    \/ AnalyzeReturn

\* runs of analyze on the programs of the pools
SpecSem == InitSem /\ [][NextSem]_vars

InitPas == \E source_code \in PasSources : PascalStart(source_code)

NextPas ==
    \/ TokenizeStep
    \/ TokenizeReturn
    \/ Parse
    \/ VisitProgram
    \/ VisitDeclaration
    \/ VisitSubprogram
    \/ VisitCompoundStatement
    \/ VisitStatement
    \/ LeaveScope
    \/ AnalyzeReturn
    \/ AstToDict
    \/ MainPrint

\* runs of main on the source files
SpecPas == InitPas /\ [][NextPas]_vars

(***************************************************************************)
(* Scopes.  What lexical scoping prescribes is read off the program: the   *)
(* Program, procedures and functions that are open (entered and not yet    *)
(* left), each with its parameters and with the declarations of its block  *)
(* up to the one that is open in it.                                       *)
(***************************************************************************)
\* a statement of a block is about to be analyzed
AtStatement ==
    /\ pc = "analyze"
    /\ visiting # <<>>
    /\ Head(visiting).do = "visit"
    /\ Head(visiting).node.py \notin
           Declarations \cup Subprograms \cup {"Program", "Block", "CompoundStatement"}

IsLeave(item) == item.do = "leave"

\* the Program, procedures and functions that are open, the innermost first
Open ==
    LET leaves == SelectSeq(visiting, IsLeave)
    IN [i \in 1..Len(leaves) |-> leaves[i].node]

\* what a declaration binds: the name, the class of its symbol, and the type
\* of a variable
Binding(d) ==
    IF d.py = "VarDecl"
    THEN [name |-> d.var_node.value, py |-> "VariableSymbol", type |-> d.type_node]
    ELSE [name |-> d.name,
          py |-> CASE d.py = "Const" -> "ConstantSymbol"
                   [] d.py = "Procedure" -> "ProcedureSymbol"
                   [] d.py = "Function" -> "FunctionSymbol"
                   [] d.py = "Type" -> "None",
          type |-> None]

NoBinding == [name |-> PyStr(<<>>), py |-> "None", type |-> None]

\* the declarations of the i-th open node that come before the statement
DeclarationsBefore(i) ==
    LET decls == Open[i].block.declarations.items
    IN IF i = 1 THEN decls
       ELSE SubSeq(decls, 1, CHOOSE k \in 1..Len(decls) :
                                 decls[k].py = Open[i - 1].py /\ decls[k] = Open[i - 1])

\* the bindings of the i-th open node: parameters, then declarations
Bindings(i) ==
    LET params == IF Open[i].py \in Subprograms THEN Open[i].params.items ELSE <<>>
        decls == SelectSeq(DeclarationsBefore(i), LAMBDA d : d.py # "Type")
    IN [k \in 1..Len(params) |-> Binding(params[k])]
           \o [k \in 1..Len(decls) |-> Binding(decls[k])]

\* the binding a reference to the name has by lexical scoping: the last one
\* of the innermost open node that binds the name
Expected(name) ==
    LET hits(i) == {k \in 1..Len(Bindings(i)) : Bindings(i)[k].name = name}
        levels == {i \in 1..Len(Open) : hits(i) # {}}
        inner == CHOOSE i \in levels : \A j \in levels : i <= j
        last == CHOOSE k \in hits(inner) : \A j \in hits(inner) : j <= k
    IN IF levels = {} THEN NoBinding ELSE Bindings(inner)[last]

\* the binding the analyzer resolves a reference to the name to
Resolved(name) ==
    LET symbol == lookup(current_scope, name, FALSE)
    IN IF symbol.py = "None" THEN NoBinding
       ELSE [name |-> symbol.name, py |-> symbol.py,
             type |-> IF symbol.py = "VariableSymbol" THEN symbol.type ELSE None]

SameBinding(a, b) ==
    /\ a.py = b.py
    /\ a.name = b.name
    /\ a.py = "VariableSymbol" => a.type = b.type

RECURSIVE NamesBound(_)
\* the names a Program, procedure or function binds, anywhere in it
NamesBound(node) ==
    LET params == IF node.py \in Subprograms THEN node.params.items ELSE <<>>
        decls == node.block.declarations.items
    IN {Binding(params[k]).name : k \in 1..Len(params)}
           \cup {Binding(decls[k]).name : k \in {j \in 1..Len(decls) : decls[j].py # "Type"}}
           \cup UNION {NamesBound(decls[k]) :
                          k \in {j \in 1..Len(decls) : decls[j].py \in Subprograms}}

\* C16: scope hygiene.  At every statement that is analyzed, each name of the
\* program resolves to what lexical scoping prescribes: a name declared (as
\* variable or parameter) only in a procedure or function that has been left
\* is not resolvable, a name declared in an enclosing scope is resolvable in
\* the body, and a declaration of the same name in the body takes precedence.
C16_ScopeHygiene ==
    AtStatement => \A name \in NamesBound(ast) : SameBinding(Resolved(name), Expected(name))

\* the names bound in the procedures and functions declared in the innermost
\* open node, all of which have been left
LeftNames ==
    LET decls == Open[1].block.declarations.items
    IN UNION {NamesBound(decls[k]) :
                 k \in {j \in 1..Len(decls) : decls[j].py \in Subprograms}}

\* a statement of a procedure is analyzed, after a procedure declared in it
\* was left: a name that procedure bound resolves to the global declaration,
\* and a name the open procedure binds hides the global declaration
C16_Witness ==
    /\ AtStatement
    /\ Len(current_scope) = 2
    /\ \E name \in LeftNames :
          /\ name \notin DOMAIN current_scope[2].symbols
          /\ name \in DOMAIN current_scope[1].symbols
          /\ Resolved(name).py = "VariableSymbol"
    /\ \E name \in DOMAIN current_scope[2].symbols :
          /\ name \in DOMAIN current_scope[1].symbols
          /\ Resolved(name) # NoBinding
          /\ Resolved(name).type = current_scope[2].symbols[name].type
          /\ Resolved(name).type # current_scope[1].symbols[name].type

(***************************************************************************)
(* Declarations and the names the current scope holds.                     *)
(***************************************************************************)
\* visit_VarDecl, visit_Const, visit_Procedure or visit_Function is called
Declaring ==
    /\ pc = "analyze"
    /\ visiting # <<>>
    /\ Head(visiting).do = "visit"
    /\ Head(visiting).node.py \in {"VarDecl", "Const", "Procedure", "Function"}

DeclaredName == Binding(Head(visiting).node).name

\* the place of the current scope in the chain
Innermost == Len(current_scope)

DuplicateIdentifier(name) ==
    [exc |-> "CompilerError", message |-> <<"Duplicate identifier", name>>]

\* C17: a declaration of a variable, constant, procedure or function whose
\* name the current scope holds fails with "Duplicate identifier '<name>'
\* found" and leaves every scope as it is; a declaration of any other name,
\* a name of an enclosing scope included, raises nothing and puts its
\* symbol into the current scope.
C17_DuplicateIdentifier ==
    [][Declaring =>
        IF DeclaredName \in DOMAIN current_scope[Innermost].symbols
        THEN /\ errors' = Append(errors, DuplicateIdentifier(DeclaredName))
             /\ pc' = "main"
             /\ current_scope' = current_scope
        ELSE /\ errors' = errors
             /\ pc' = "analyze"
             /\ DeclaredName \in DOMAIN current_scope'[Innermost].symbols
             /\ current_scope'[Innermost].symbols[DeclaredName].py
                    = Binding(Head(visiting).node).py]_vars

\* in a procedure, a name of the global scope was declared and accepted, and
\* its second declaration has failed: the scope of the procedure holds the
\* symbol of the first one
C17_Witness ==
    /\ pc = "main"
    /\ errors # <<>> /\ errors[Len(errors)].exc = "CompilerError"
    /\ errors[Len(errors)].message[1] = "Duplicate identifier"
    /\ Len(current_scope) = 2
    /\ LET name == errors[Len(errors)].message[2]
       IN /\ name \in DOMAIN current_scope[1].symbols
          /\ name \in DOMAIN current_scope[2].symbols
          /\ visiting # <<>> /\ Head(visiting).node.py = "VarDecl"
          /\ Head(visiting).node.type_node # current_scope[2].symbols[name].type

(***************************************************************************)
(* Assignments between simple types.                                       *)
(***************************************************************************)
\* the value of the SimpleType a name has as a variable, None when it has none
VariableType(name) ==
    LET symbol == lookup(current_scope, name, FALSE)
    IN IF symbol.py = "VariableSymbol" /\ symbol.type.py = "SimpleType"
       THEN symbol.type.value ELSE None

\* the value of the SimpleType of an expression that is a literal or a name
\* of a variable or constant, None for any other
ExpressionType(node) ==
    CASE node.py = "Num" /\ node.value.py = "int" -> TypeName("INTEGER")
      [] node.py = "Num" /\ node.value.py = "float" -> TypeName("REAL")
      [] node.py = "Boolean" -> TypeName("BOOLEAN")
      [] node.py = "String" -> TypeName("STRING")
      [] node.py = "Var" ->
            LET symbol == lookup(current_scope, node.value, FALSE)
            IN IF symbol.py \in {"VariableSymbol", "ConstantSymbol"}
                  /\ symbol.type.py = "SimpleType"
               THEN symbol.type.value ELSE None
      [] OTHER -> None

\* an assignment is about to be analyzed: a variable of a simple type on the
\* left, an expression of a simple type on the right
SimpleAssignment ==
    /\ AtStatement
    /\ Head(visiting).node.py = "Assign"
    /\ Head(visiting).node.left.py = "Var"
    /\ VariableType(Head(visiting).node.left.value).py = "str"
    /\ ExpressionType(Head(visiting).node.right).py = "str"

\* T = U, or {T, U} = {INTEGER, REAL}
Compatible(T, U) == T = U \/ {T, U} = {TypeName("INTEGER"), TypeName("REAL")}

IncompatibleTypes(T, U) ==
    [exc |-> "CompilerError", message |-> <<"Incompatible types in assignment", T, U>>]

Widening(node) ==
    /\ node.py = "Procedure"
    /\ node.block.declarations.items # <<>>
    /\ node.block.declarations.items[1].py = "VarDecl"
    /\ node.block.declarations.items[1].type_node.value = TypeName("REAL")
    /\ node.block.compound_statement.statements.items[1].py = "Assign"
    /\ node.block.compound_statement.statements.items[1].left.value
           = node.block.declarations.items[1].var_node.value
    /\ node.block.compound_statement.statements.items[1].right.py = "Num"
    /\ node.block.compound_statement.statements.items[1].right.value.py = "int"

AnalysisFailed ==
    /\ ast.py = "Program"
    /\ errors # <<>>
    /\ errors[1].exc = "CompilerError"

\* C19: when compiling ends in a semantic error the command line prints one
\* line, the diagnostic, and exits with code 1; it exits with code 0 only
\* when lexing, parsing and semantic analysis have all succeeded.
\* Fails: compile_pascal_code returns the error as a dict, main prints it
\* after the line analyze has printed, and returns.
C19_SemanticErrorExit ==
    pc = "exit" =>
        /\ AnalysisFailed => exit_code = 1 /\ Len(errors) = 1
        /\ exit_code = 0 => ast.py = "Program" /\ errors = <<>>

(***************************************************************************)
(* The dict of a program.                                                  *)
(***************************************************************************)
RECURSIVE JsonRepresentable(_)
\* a JSON value: a scalar, an array of JSON values, or an object whose
\* values are JSON values; a Token, a node and a tuple are none of these
JsonRepresentable(value) ==
    CASE value.py \in {"str", "int", "float", "bool", "None"} -> TRUE
      [] value.py = "list" ->
            \A i \in 1..Len(value.items) : JsonRepresentable(value.items[i])
      [] value.py = "dict" ->
            \A i \in 1..Len(value.values) : JsonRepresentable(value.values[i])
      [] OTHER -> FALSE

\* C20: ast_to_dict turns every node into an object with a type field, every
\* Token held in a node field (the op of Assign, BinOp and UnaryOp too) into
\* an object, and every sequence (the pairs of Case too) into an array, so
\* the result of a successfully analyzed program holds only
\* JSON-representable values.
\* Fails: ast_to_dict converts a Token only under the attribute named token,
\* and a tuple not at all: the op of an Assign stays a Token in the result.
C20_JsonRepresentable ==
    [][pc = "ast_to_dict" => JsonRepresentable(result')]_vars

(***************************************************************************)
(* Runs on the sources that are about the operands of the second pass.     *)
(***************************************************************************)
MaxEncLines == 3

S_jmp_5 == M_JMP \o SP \o <<"5">> \o NL
S_ld_5 == M_LD \o SP \o <<"%", "r", "2", ",", " ", "5">> \o NL
S_ld_neg == M_LD \o SP \o <<"%", "r", "2", ",", " ", "-", "1">> \o NL
S_ld_db == M_LD \o SP \o <<"%", "r", "2", ",", " ", "d", "b">> \o NL
S_ld_M == M_LD \o SP \o <<"%", "r", "2", ",", " ", "M">> \o NL
S_sys_1 == M_SYS \o SP \o <<"1">> \o NL

\* the lines of the operand-centred runs
EncLines ==
    {S_label_L, S_jmp_L, S_jmp_M, S_jmp_5, S_jmp, S_ld_L, S_ld_5, S_ld_neg, S_ld_db,
     S_ld_M, S_db_5, S_ldi_5, S_ldi_r9, S_sys_1, S_nop}

InitEnc == \E ls \in SeqsUpTo(EncLines, MaxEncLines) : Start(ls)

SpecEnc == InitEnc /\ [][Next]_vars

(***************************************************************************)
(* C22: in the second pass an address operand is accepted only when it is  *)
(* a key of the labels table, and a memory operand only when it is a key   *)
(* of the labels table or a decimal literal; every other operand of these  *)
(* two kinds yields an 'Undefined label' error and the line appends no     *)
(* word to text_segment.                                                   *)
(***************************************************************************)
\* the kind of the last operand of an instruction line
LastOperandType(line) == RefInfo(line).operand_types[RefInfo(line).operand_count]

\* one or more of the digits 0 to 9
DecimalLiteral(s) ==
    s # <<>> /\ \A i \in 1..Len(s) : s[i] \in {"0", "1", "2", "3", "4", "5", "6", "7", "8", "9"}

\* what the last operand of the line must be to be accepted
Acceptable(line) ==
    \/ LastOperand(line) \in DOMAIN labels
    \/ LastOperandType(line) = "memory" /\ DecimalLiteral(LastOperand(line))

\* C22: a word is appended only for an acceptable address or memory operand,
\* and any other one is answered with 'Undefined label' and no word
C22_LabelOperands ==
    [][(AtLine("second_pass") /\ IsLabelRef(CurLine))
       => (/\ Len(text_segment') > Len(text_segment) => Acceptable(CurLine)
           /\ ~Acceptable(CurLine)
                 => (/\ errors' = Append(errors, "Undefined label")
                     /\ text_segment' = text_segment
                     /\ pc' = "second_pass"))]_vars

\* C22, witness: a memory operand that is a decimal literal has been encoded,
\* and after it an address operand that is a decimal literal and no key of
\* the labels table has been refused
C22_Witness ==
    /\ pc = "second_pass" /\ idx = 3
    /\ IsLabelRef(preprocessed_lines[1])
    /\ LastOperandType(preprocessed_lines[1]) = "memory"
    /\ DecimalLiteral(LastOperand(preprocessed_lines[1]))
    /\ IsLabelRef(preprocessed_lines[2])
    /\ LastOperandType(preprocessed_lines[2]) = "address"
    /\ DecimalLiteral(LastOperand(preprocessed_lines[2]))
    /\ LastOperand(preprocessed_lines[2]) \notin DOMAIN labels
    /\ Len(text_segment) = 1
    /\ errors = <<"Undefined label">>

(***************************************************************************)
(* Runs on the sources that are about .define.                             *)
(***************************************************************************)
MaxDefLines == 3

S_define_A_B == K_define \o SP \o <<"A", " ", "B">> \o NL
S_define_B_C == K_define \o SP \o <<"B", " ", "C">> \o NL
S_A == <<"A">> \o NL
S_out_A_B == M_OUT \o SP \o <<"A", "B">> \o NL

\* the lines of the define-centred runs
DefLines == {S_define_A_B, S_define_B_C, S_define_D, S_A, S_out_A_B, S_out_D}

InitDef == \E ls \in SeqsUpTo(DefLines, MaxDefLines) : Start(ls)

SpecDef == InitDef /\ [][Next]_vars

(***************************************************************************)
(* C23: define substitution replaces only the occurrences of a macro name  *)
(* that are in the line as written: text put in by one substitution is     *)
(* never replaced by another define, whatever the order of the .define     *)
(* directives (after `.define A B` and `.define B C`, a line `A` is        *)
(* emitted as `B`).                                                        *)
(* Fails: the defines are applied one after the other, each to the result  *)
(* of the one before, so the B put in for A is replaced by C.              *)
(***************************************************************************)
\* the defines whose name is written in the line at place p
NamesAt(line, defs, p) ==
    {i \in 1..Len(defs) :
        /\ p + Len(defs[i][1]) - 1 <= Len(line)
        /\ SubSeq(line, p, p + Len(defs[i][1]) - 1) = defs[i][1]}

RECURSIVE SubstitutedOnce(_, _, _)
\* the line with every macro name written in it, from place p on, replaced
\* by its value, the values left as they are
SubstitutedOnce(line, defs, p) ==
    IF p > Len(line) THEN <<>>
    ELSE IF NamesAt(line, defs, p) = {}
    THEN <<line[p]>> \o SubstitutedOnce(line, defs, p + 1)
    ELSE LET i == CHOOSE k \in NamesAt(line, defs, p) :
                      \A j \in NamesAt(line, defs, p) : k <= j
         IN defs[i][2] \o SubstitutedOnce(line, defs, p + Len(defs[i][1]))

\* C23: an emitted line is the line as written with its macro names replaced
\* once
C23_SubstitutedOnce ==
    [][(AtSourceLine /\ Len(preprocessed_lines') = Len(preprocessed_lines) + 1)
       => preprocessed_lines'[Len(preprocessed_lines')]
              = SubstitutedOnce(strip(before_semicolon(lines[idx])), defines, 1)]_vars

(***************************************************************************)
(* C27: the two passes agree on the address layout: for every instruction  *)
(* line of the preprocessed sequence, the address the second pass records  *)
(* with the encoded word is the value current_address had when the first   *)
(* pass reached that line, so a label defined right before an instruction  *)
(* resolves to the address at which that instruction is emitted.           *)
(* Fails: the first pass advances by sum(field_sizes) // 8 for an          *)
(* instruction and by 4 for a data directive, the second pass by 4 for an  *)
(* instruction and not at all for a data directive.                        *)
(***************************************************************************)
C27_PassesAgree ==
    [][(AtLine("second_pass") /\ Len(text_segment') = Len(text_segment) + 1)
       => text_segment'[Len(text_segment')][2]
              = format_b(FirstPassAddressAt(idx), 32)]_vars

(***************************************************************************)
(* C28: a second-pass line that ends in an encoding error (wrong operand   *)
(* count, unknown register, undefined label, unsupported operand kind)     *)
(* leaves text_segment, labels and current_address unchanged: no partial   *)
(* word is appended, and the next emitted instruction gets the address the *)
(* failing line would have had.                                            *)
(***************************************************************************)
\* the step prints one encoding error
EncodingErrorPrinted ==
    /\ Len(errors') = Len(errors) + 1
    /\ errors'[Len(errors')] \in EncodingErrors

\* C28: the step of the second pass that prints an encoding error changes
\* neither text_segment nor labels nor current_address
C28_ErrorLineFrame ==
    [][(AtLine("second_pass") /\ EncodingErrorPrinted)
       => (/\ text_segment' = text_segment
           /\ labels' = labels
           /\ current_address' = current_address)]_vars

\* C28, witness: between two lines that are the same and were both encoded,
\* an instruction line ended in an encoding error, and the word of the line
\* after it has the address 4 the failing line would have had
C28_Witness ==
    /\ pc = "second_pass" /\ idx = 4
    /\ preprocessed_lines[1] = preprocessed_lines[3]
    /\ Parts(preprocessed_lines[2]) # <<>>
    /\ upper(Parts(preprocessed_lines[2])[1]) \in DOMAIN instructions
    /\ Len(errors) = 1 /\ errors[1] \in EncodingErrors
    /\ Len(text_segment) = 2
    /\ text_segment[2][2] = format_b(4, 32)
    /\ current_address = 8

(***************************************************************************)
(* C29: every directive inside a conditional section whose emit flag is    *)
(* false has no effect: a #include there inlines no line of the named file *)
(* into the output, and a .define there records no substitution (so a      *)
(* later .ifdef of that name is false).                                    *)
(* Fails: preprocess handles #include before it tests the emit flag, so    *)
(* the lines of the file are inlined all the same.                         *)
(***************************************************************************)
\* the source line is a #include or a .define
IncludeOrDefine(raw) ==
    \/ Directive(raw) = "include"
    \/ startswith(strip(before_semicolon(raw)), K_define)

\* C29: a #include or a .define met while the emit flag is false changes
\* neither the lines to inline nor the defines nor the lines emitted
C29_FalseSectionInert ==
    [][(AtSourceLine /\ ~processing /\ IncludeOrDefine(lines[idx]))
       => (/\ include_stack' = include_stack
           /\ defines' = defines
           /\ preprocessed_lines' = preprocessed_lines)]_vars

(***************************************************************************)
(* C30: no scope's symbol table ever receives a name it already holds: in  *)
(* every analysis that ends without a semantic error each name was         *)
(* inserted at most once into each scope, the formal parameters of a       *)
(* procedure or function included (two parameters of the same name are     *)
(* rejected rather than silently overwritten).                             *)
(* Fails: visit_Procedure and visit_Function insert every parameter        *)
(* without a lookup, so the second `y` of `PROCEDURE s(y: INTEGER;         *)
(* y: REAL)` takes the place of the first and no error is raised.          *)
(***************************************************************************)
\* the names the visit of a procedure or function inserts into its new scope
ParameterNames(node) ==
    IF node.py \in Subprograms
    THEN [i \in 1..Len(node.params.items) |-> node.params.items[i].var_node.value]
    ELSE <<>>

\* a name is there twice
Repeated(names) == \E i, j \in 1..Len(names) : i < j /\ names[i] = names[j]

\* the step raises the CompilerError of a duplicate identifier
DuplicateRaised ==
    /\ pc' = "main"
    /\ Len(errors') = Len(errors) + 1
    /\ errors'[Len(errors')].exc = "CompilerError"
    /\ errors'[Len(errors')].message[1] = "Duplicate identifier"

\* C30: the visit of a declaration raises the error of a duplicate
\* identifier, or every name it inserts is new in the scope that receives it
C30_InsertedOnce ==
    [][Declaring =>
          \/ DuplicateRaised
          \/ /\ DeclaredName \notin DOMAIN current_scope[Innermost].symbols
             /\ ~Repeated(ParameterNames(Head(visiting).node))]_vars

(***************************************************************************)
(* Runs of analyze on programs that declare arrays.                        *)
(***************************************************************************)
\* a: ARRAY[1 .. 2] OF INTEGER;
Decl_a_1_2_INTEGER ==
    VarDecl(Var(create_token("ID", PyStr(<<"a">>))),
            ArrayType(SimpleType(create_token("ID", PyStr(<<"I", "N", "T", "E", "G", "E", "R">>))),
                      Num(create_token("INTEGER", PyInt(1))),
                      Num(create_token("INTEGER", PyInt(2)))))

\* b: ARRAY[1 .. 2] OF INTEGER;
Decl_b_1_2_INTEGER ==
    VarDecl(Var(create_token("ID", PyStr(<<"b">>))),
            ArrayType(SimpleType(create_token("ID", PyStr(<<"I", "N", "T", "E", "G", "E", "R">>))),
                      Num(create_token("INTEGER", PyInt(1))),
                      Num(create_token("INTEGER", PyInt(2)))))

\* b: ARRAY[1 .. 2] OF REAL;
Decl_b_1_2_REAL ==
    VarDecl(Var(create_token("ID", PyStr(<<"b">>))),
            ArrayType(SimpleType(create_token("ID", PyStr(<<"R", "E", "A", "L">>))),
                      Num(create_token("INTEGER", PyInt(1))),
                      Num(create_token("INTEGER", PyInt(2)))))

\* b: ARRAY[1 .. 2] OF BOOLEAN;
Decl_b_1_2_BOOLEAN ==
    VarDecl(Var(create_token("ID", PyStr(<<"b">>))),
            ArrayType(SimpleType(create_token("ID", PyStr(<<"B", "O", "O", "L", "E", "A", "N">>))),
                      Num(create_token("INTEGER", PyInt(1))),
                      Num(create_token("INTEGER", PyInt(2)))))

\* b: ARRAY[1 .. 3] OF INTEGER;
Decl_b_1_3_INTEGER ==
    VarDecl(Var(create_token("ID", PyStr(<<"b">>))),
            ArrayType(SimpleType(create_token("ID", PyStr(<<"I", "N", "T", "E", "G", "E", "R">>))),
                      Num(create_token("INTEGER", PyInt(1))),
                      Num(create_token("INTEGER", PyInt(3)))))

\* b: ARRAY[0 .. 2] OF INTEGER;
Decl_b_0_2_INTEGER ==
    VarDecl(Var(create_token("ID", PyStr(<<"b">>))),
            ArrayType(SimpleType(create_token("ID", PyStr(<<"I", "N", "T", "E", "G", "E", "R">>))),
                      Num(create_token("INTEGER", PyInt(0))),
                      Num(create_token("INTEGER", PyInt(2)))))

\* a := b
Stmt_a_b ==
    Assign(Var(create_token("ID", PyStr(<<"a">>))),
           create_token("ASSIGN", PyStr(<<":", "=">>)),
           Var(create_token("ID", PyStr(<<"b">>))))

ArrayDeclarationPool ==
    <<Decl_a_1_2_INTEGER, Decl_b_1_2_INTEGER, Decl_b_1_2_REAL, Decl_b_1_2_BOOLEAN, Decl_b_1_3_INTEGER, Decl_b_0_2_INTEGER,
      Decl_x_INTEGER>>

ArraySubprogramSections == <<<<>>, <<Proc_local>>>>

ArrayStatementPool == <<Stmt_a_b, Stmt_x_1>>

InitArr ==
    \E decls \in SeqsUpTo(DOMAIN ArrayDeclarationPool, MaxDeclarations),
       subprograms \in DOMAIN ArraySubprogramSections,
       statements \in SeqsUpTo(DOMAIN ArrayStatementPool, MaxStatements) :
        PascalAnalyze(AnalyzedProgram(Picked(ArrayDeclarationPool, decls),
                                      ArraySubprogramSections[subprograms],
                                      Picked(ArrayStatementPool, statements)))

SpecArr == InitArr /\ [][NextSem]_vars

(***************************************************************************)
(* C26: type compatibility is structural on arrays in assignments: the     *)
(* assignment of one array variable to another is accepted when both       *)
(* ArrayTypes have compatible element types and identical bounds, and      *)
(* rejected when the element types are incompatible or the bounds differ.  *)
(* Fails: visit_Assign accepts only a SimpleType on the left, so every     *)
(* assignment to an array variable raises 'Invalid left-hand side in       *)
(* assignment' before the types are compared.                              *)
(***************************************************************************)
\* the ArrayType of a variable declared as an array, None for any other name
ArrayTypeOf(name) ==
    LET symbol == lookup(current_scope, name, FALSE)
    IN IF symbol.py = "VariableSymbol" /\ symbol.type.py = "ArrayType"
       THEN symbol.type ELSE None

\* an assignment of an array variable to an array variable is about to be
\* analyzed
ArrayAssignment ==
    /\ AtStatement
    /\ Head(visiting).node.py = "Assign"
    /\ Head(visiting).node.left.py = "Var"
    /\ Head(visiting).node.right.py = "Var"
    /\ ArrayTypeOf(Head(visiting).node.left.value).py = "ArrayType"
    /\ ArrayTypeOf(Head(visiting).node.right.value).py = "ArrayType"

\* compatible element types and the same bounds
ArraysCompatible(A, B) ==
    /\ Compatible(A.element_type.value, B.element_type.value)
    /\ A.start.value = B.start.value
    /\ A.end.value = B.end.value

\* C26: an assignment between array variables is accepted when the arrays
\* are compatible, and raises an error when they are not
C26_ArrayAssignment ==
    [][ArrayAssignment =>
        IF ArraysCompatible(ArrayTypeOf(Head(visiting).node.left.value),
                            ArrayTypeOf(Head(visiting).node.right.value))
        THEN errors' = errors /\ pc' = "analyze" /\ visiting' = Tail(visiting)
        ELSE Len(errors') = Len(errors) + 1 /\ pc' = "main"]_vars

(***************************************************************************)
(* Runs of main on the beginnings of source files: every text that is the  *)
(* first n characters of a program that compiles, n from 0 to the whole.   *)
(***************************************************************************)
ValidSources == {Pas_empty, Pas_assign, Pas_case, Pas_procedure, Pas_function, Pas_sum}

Beginnings(text) == {SubSeq(text, 1, n) : n \in 0..Len(text)}

InitPfx ==
    \E whole \in ValidSources : \E source_code \in Beginnings(whole) :
        PascalStart(source_code)

SpecPfx == InitPfx /\ [][NextPas]_vars

(***************************************************************************)
(* C21: for every token stream that is not a complete program, every       *)
(* proper prefix of a valid program's token stream included, parse fails   *)
(* at the first unexpected token with the parser's CompilerError that      *)
(* names the expected and the found kind (EOF when the input has ended);   *)
(* it never fails with another kind of error and never returns an AST.     *)
(* Fails: where the parser reads self.current_token.type or .value without *)
(* eat, the end of the input (current_token is None) raises AttributeError.*)
(***************************************************************************)
\* a program ends with a dot: a stream that does not is no complete program
IncompleteStream == tokens = <<>> \/ tokens[Len(tokens)].type # "DOT"

\* the CompilerError of eat: the expected kind and the found kind, EOF for
\* the end of the input
ExpectedFound(e) ==
    /\ e.exc = "CompilerError"
    /\ Len(e.message) = 4
    /\ e.message[1] = "Expected" /\ e.message[3] = "found"
    /\ e.token.py = "None" => e.message[4] = "EOF"

\* C21: parse of a stream that is no complete program returns no AST and
\* raises the CompilerError of the expected and the found kind, and parse
\* raises no other kind of error on any stream
C21_StrictParser ==
    [][pc = "parse" =>
          /\ IncompleteStream =>
                /\ pc' = "exit" /\ ast' = ast
                /\ Len(errors') = Len(errors) + 1
                /\ ExpectedFound(errors'[Len(errors')])
          /\ pc' = "exit" => errors'[Len(errors')].exc = "CompilerError"]_vars

(***************************************************************************)
(* Runs of the lexer and the parser on programs of one assignment, whose   *)
(* right side is an expression of up to MaxOperators binary operators      *)
(* between the names a, b, c, ..., any of them under a unary minus.        *)
(***************************************************************************)
MaxOperators == 2

OperatorPool ==
    <<<<"<">>, <<"+">>, <<"-">>, <<"O", "R">>, <<"*">>, <<"/">>, <<"A", "N", "D">>>>

OperandNames == <<"a", "b", "c", "d", "e">>

\* the i-th operand as it is written
Operand(i, negated) == (IF i \in negated THEN <<"-">> ELSE <<>>) \o <<OperandNames[i]>>

RECURSIVE ExpressionText(_, _, _)
\* the first i operands and the operators between them
ExpressionText(ops, negated, i) ==
    IF i = 1 THEN Operand(1, negated)
    ELSE ExpressionText(ops, negated, i - 1)
             \o <<" ">> \o OperatorPool[ops[i - 1]] \o <<" ">> \o Operand(i, negated)

\* PROGRAM T; BEGIN x := <expression> END.
ExpressionSource(ops, negated) ==
    <<"P", "R", "O", "G", "R", "A", "M", " ", "T", ";", " ", "B", "E", "G", "I", "N", " ", "x", " ", ":", "=", " ">>
        \o ExpressionText(ops, negated, Len(ops) + 1) \o <<" ", "E", "N", "D", ".">>

InitExp ==
    \E ops \in SeqsUpTo(DOMAIN OperatorPool, MaxOperators) :
        \E negated \in SUBSET (1..(Len(ops) + 1)) :
            PascalStart(ExpressionSource(ops, negated))

\* compile_pascal_code up to the return of parse
NextFront ==
    \/ TokenizeStep
    \/ TokenizeReturn
    \/ Parse

SpecExp == InitExp /\ [][NextFront]_vars

(***************************************************************************)
(* C24: the parser builds expression trees with the precedence relational  *)
(* < additive (PLUS, MINUS, OR) < multiplicative (MUL, DIV, AND) < unary   *)
(* < primary, and the operators of one level associate to the left:        *)
(* `a + b * c` yields BinOp(a, PLUS, BinOp(b, MUL, c)), `a - b - c` yields *)
(* BinOp(BinOp(a, MINUS, b), MINUS, c), and `a < b + c` yields             *)
(* BinOp(a, LT, BinOp(b, PLUS, c)).                                        *)
(***************************************************************************)
\* the level of a binary operator
Level(kind) ==
    CASE kind \in {"EQ", "NEQ", "LT", "LTE", "GT", "GTE"} -> 1
      [] kind \in {"PLUS", "MINUS", "OR"} -> 2
      [] kind \in {"MUL", "DIV", "AND"} -> 3
      [] OTHER -> 0

RECURSIVE Yield(_)
\* the tokens of an expression tree, from left to right
Yield(node) ==
    CASE node.py = "BinOp" -> Yield(node.left) \o <<node.op>> \o Yield(node.right)
      [] node.py = "UnaryOp" -> <<node.op>> \o Yield(node.expr)
      [] OTHER -> <<node.token>>

RECURSIVE Layered(_)
\* the tree of an expression without parentheses: the right operand of an
\* operator is of a higher level, the left one of the same level or higher,
\* and the operand of a unary operator is no binary operation
Layered(node) ==
    CASE node.py = "BinOp" ->
            /\ Layered(node.left) /\ Layered(node.right)
            /\ node.left.py = "BinOp" => Level(node.left.op.type) >= Level(node.op.type)
            /\ node.right.py = "BinOp" => Level(node.right.op.type) > Level(node.op.type)
      [] node.py = "UnaryOp" -> node.expr.py # "BinOp" /\ Layered(node.expr)
      [] OTHER -> TRUE

\* the right side of the assignment of a parsed program, and its tokens
RightSide(tree) == tree.block.compound_statement.statements.items[1].right
RightSideTokens == SubSeq(tokens, 7, Len(tokens) - 2)

\* C24: parse returns, for the expression as written, the one tree in which
\* the levels are nested by precedence and each level associates to the left
C24_Precedence ==
    [][pc = "parse" =>
          /\ pc' = "analyze"
          /\ Yield(RightSide(ast')) = RightSideTokens
          /\ Layered(RightSide(ast'))]_vars

\* the leaf of a name
IsName(node, name) == node.py = "Var" /\ node.value = PyStr(<<name>>)

\* C24, witness: `a + b * c` has been parsed to BinOp(a, PLUS, BinOp(b, MUL, c))
C24_Witness ==
    /\ pc = "analyze"
    /\ ast.py = "Program"
    /\ LET tree == RightSide(ast)
       IN /\ tree.py = "BinOp" /\ tree.op.type = "PLUS"
          /\ IsName(tree.left, "a")
          /\ tree.right.py = "BinOp" /\ tree.right.op.type = "MUL"
          /\ IsName(tree.right.left, "b") /\ IsName(tree.right.right, "c")

(***************************************************************************)
(* Runs of the lexer and the parser on programs of one assignment to a     *)
(* BOOLEAN variable, whose right side is an operand or NOT of an operand.  *)
(***************************************************************************)
NotOperands ==
    <<<<"T", "R", "U", "E">>, <<"F", "A", "L", "S", "E">>, <<"x">>, <<"1">>, <<"(", "x", ")">>, <<"x", " ", "=", " ", "x">>, <<"-", "1">>>>

\* PROGRAM T; VAR x: BOOLEAN; BEGIN x := [NOT] <operand> END.
NotSource(i, negated) ==
    <<"P", "R", "O", "G", "R", "A", "M", " ", "T", ";", " ", "V", "A", "R", " ", "x", ":", " ", "B", "O", "O", "L", "E", "A", "N", ";", " ", "B", "E", "G", "I", "N", " ", "x", " ", ":", "=", " ">>
        \o (IF negated THEN <<"N", "O", "T", " ">> ELSE <<>>)
        \o NotOperands[i] \o <<" ", "E", "N", "D", ".">>

InitNot ==
    \E i \in DOMAIN NotOperands : \E negated \in BOOLEAN :
        PascalStart(NotSource(i, negated))

SpecNot == InitNot /\ [][NextFront]_vars

(***************************************************************************)
(* C25: `NOT e` is accepted by the parser at the unary level and yields    *)
(* UnaryOp(NOT, e), which the semantic analyzer accepts exactly when e has *)
(* type BOOLEAN.                                                           *)
(***************************************************************************)
\* the expression of the program begins with the keyword NOT
NotWritten == Len(tokens) >= 12 /\ tokens[12].type = "NOT"

\* C25: parse returns a tree for an expression that begins with NOT, and the
\* right side of the assignment is UnaryOp(NOT, e) with e the tree of the rest
C25_NotAccepted ==
    [][(pc = "parse" /\ NotWritten) =>
          /\ pc' = "analyze"
          /\ RightSide(ast').py = "UnaryOp"
          /\ RightSide(ast').op = tokens[12]
          /\ Yield(RightSide(ast').expr) = SubSeq(tokens, 13, Len(tokens) - 2)]_vars

============================================================================
